---- MODULE Spec2Model ----
(***************************************************************************)
(* Two-factor authentication gateway of vpn_project/authserver:            *)
(*   - the REST two-step login (views.py: LoginStep1View, LoginStep2View), *)
(*   - the short-lived credentials (models.py: TwoFactorCode,              *)
(*     TemporaryToken),                                                    *)
(*   - the OpenVPN management-interface bridge (management_interface.py).  *)
(* Time is counted in minutes.  Strings are TLA+ strings; a character of a *)
(* string s is SubSeq(s, i, i).                                            *)
(***************************************************************************)
EXTENDS Integers, Sequences, FiniteSets, TLC

VARIABLES
    now,        \* timezone.now(), in minutes
    codes,      \* table TwoFactorCode, in creation order (index = pk)
    tokens,     \* table TemporaryToken, in creation order (index = pk)
    authtoken,  \* users that own a permanent rest_framework Token
    last,       \* the call being answered: its inputs and its outcome
    sent,       \* commands written to the control socket, oldest first
    pc,         \* concurrent handlers: the position of each thread
    loc,        \* concurrent handlers: the local variables of each thread
    stream,     \* control socket: all the bytes the peer sends on this connection
    peer,       \* control socket: the segments the peer has not sent yet
    wire,       \* control socket: bytes sent by the peer and not yet received
    answered,   \* control socket: number of written commands the peer has answered
    lines,      \* _run: the lines of the current read still to be processed
    asm,        \* _run: current_cid, current_kid, username, password, collecting_env
    bpc,        \* worker thread: its position in _run, connect and send_command
    decisions,  \* history: the decisions taken by the service loop, oldest first
    running,    \* self.running
    sock,       \* self.socket: "none", "unconnected", "open" or "closed"
    link,       \* the peer's side of the connection: "none", "up", "down" (closed) or "reset"
    retry_count,\* connect: retry_count
    ctx,        \* the call of connect() the worker is in: "start" (139), "eof" (156), "error" (213)
    mpc,        \* the thread that calls start(), stop() and send_command(): its position
    sc_command, \* send_command: the argument of the latest call
    sc_response,\* send_command: the value the latest call returned
    data,       \* connect 58: the greeting read on the latest attempt
    conns,      \* history: the number of connections established so far
    stale,      \* workers of an earlier start() that are still alive
    management_interface, \* the module's global: None or an object
    instances,  \* the OpenVPNManagementInterface objects created, oldest first
    callers     \* the threads that call the module's functions: position and locals

dbvars == <<now, codes, tokens, authtoken>>

procvars == <<stale, management_interface, instances, callers>>

convars == <<pc, loc>>

objvars == <<running, sock, link, retry_count, ctx, mpc, sc_command, sc_response,
             data, conns>>

ifvars == <<objvars, procvars>>

brvars == <<stream, peer, wire, answered, lines, asm, bpc, decisions, ifvars>>

svcvars == <<dbvars, last, sent, convars, stream, peer, wire, answered, lines, asm,
             bpc, decisions, objvars>>

(***************************************************************************)
(* Bounds of the model.                                                    *)
(***************************************************************************)
MaxTime == 15
TickMinutes == 5
MaxCodes == 2
MaxTokens == 1
MaxSent == 1
MaxConnects == 2
MaxCommands == 3
MaxLines == 6

(***************************************************************************)
(* Program constants.                                                      *)
(***************************************************************************)
CodeExpiryMinutes == 10
TokenExpiryMinutes == 15
connect_retries == 5

None == "<None>"

\* send_command has written the command and has not returned yet
Pending == "<pending>"

(***************************************************************************)
(* Accounts (CustomUser rows).  The enrolment flow that writes them is     *)
(* outside the gateway; dave selected GOOGLE_AUTH through the profile      *)
(* serializer, which stores the method without a secret, and erin selected *)
(* SMS the same way, without a phone number.                               *)
(***************************************************************************)
users ==
    [ alice |-> [password |-> "pw", two_fa_method |-> "NONE",
                 two_fa_secret |-> None, phone_number |-> None],
      bob   |-> [password |-> "pw", two_fa_method |-> "SMS",
                 two_fa_secret |-> None, phone_number |-> "555"],
      carol |-> [password |-> "pw", two_fa_method |-> "GOOGLE_AUTH",
                 two_fa_secret |-> "S3", phone_number |-> None],
      dave  |-> [password |-> "pw", two_fa_method |-> "GOOGLE_AUTH",
                 two_fa_secret |-> None, phone_number |-> None],
      erin  |-> [password |-> "pw", two_fa_method |-> "SMS",
                 two_fa_secret |-> None, phone_number |-> None] ]

UserNames == DOMAIN users

(***************************************************************************)
(* Strings.                                                                *)
(***************************************************************************)
CharAt(s, i) == SubSeq(s, i, i)

DigitStr(n) == CharAt("0123456789", n + 1)

Rep6(d) == d \o d \o d \o d \o d \o d

Max(S) == CHOOSE x \in S : \A y \in S : y <= x

Min(S) == CHOOSE x \in S : \A y \in S : x <= y

\* ';' in password
HasSemi(s) == \E i \in 1..Len(s) : CharAt(s, i) = ";"

FirstSemi(s) == Min({i \in 1..Len(s) : CharAt(s, i) = ";"})

\* mutant: the field is not split
password_part_unsplit(s) == s

\* password.split(';', 1)
password_part(s) == SubSeq(s, 1, FirstSemi(s) - 1)

code_part(s) == SubSeq(s, FirstSemi(s) + 1, Len(s))

(***************************************************************************)
(* django.contrib.auth.authenticate: the user, or None; unknown user and   *)
(* wrong password are not distinguished.                                   *)
(***************************************************************************)
\* mutant: the password is not checked
authenticate_any_password(username, password) ==
    IF username \in UserNames THEN username ELSE None

authenticate(username, password) ==
    IF username \in UserNames /\ users[username].password = password
    THEN username ELSE None

(***************************************************************************)
(* TwoFactorCode.is_valid and TemporaryToken.is_valid.                     *)
(***************************************************************************)
\* mutant: the expiry is not checked
code_is_valid_no_expiry(c, t) == ~c.is_used

code_is_valid(c, t) == ~c.is_used /\ c.expires_at > t

\* mutant: the expiry comparison is inverted
token_is_valid_inverted(k, t) == ~k.is_used /\ k.expires_at < t

token_is_valid(k, t) == ~k.is_used /\ k.expires_at > t

(***************************************************************************)
(* TwoFactorService.verify_totp: pyotp.TOTP(secret).verify(code) with the  *)
(* library defaults (interval 30 s, valid_window 0): the code must equal   *)
(* the code of the current time step.  Otp stands for the HMAC-based       *)
(* 6-digit code of a counter.                                              *)
(***************************************************************************)
timecode(t) == (t * 60) \div 30

SecretSeed(secret) == IF secret = "S3" THEN 3 ELSE 0

Otp(secret, counter) == Rep6(DigitStr((SecretSeed(secret) + counter) % 7))

verify_totp(secret, code, t) == code = Otp(secret, timecode(t))

(***************************************************************************)
(* TemporaryToken.generate_token: str(uuid.uuid4()) is a fresh value; the  *)
(* model names the n-th token "tok<n>".                                    *)
(***************************************************************************)
TokenStr(n) == "tok" \o DigitStr(n)

generate_token(toks, user, t) ==
    Append(toks, [user |-> user, token |-> TokenStr(Len(toks) + 1),
                  expires_at |-> t + TokenExpiryMinutes, is_used |-> FALSE,
                  grants |-> 0, denials |-> 0])

\* TwoFactorCode.generate_code with the random digits drawn by the caller
generate_code(cs, user, code, t) ==
    Append(cs, [user |-> user, code |-> code,
                expires_at |-> t + CodeExpiryMinutes, is_used |-> FALSE,
                grants |-> 0])

(***************************************************************************)
(* Queries on the TwoFactorCode table.  created_at is auto_now_add, so     *)
(* .latest('created_at') is the row with the highest pk among the matches; *)
(* 0 stands for TwoFactorCode.DoesNotExist.                                *)
(***************************************************************************)
\* mutant: the oldest unused row instead of the latest
latest_unused_oldest(cs, user) ==
    LET S == {i \in 1..Len(cs) : cs[i].user = user /\ ~cs[i].is_used}
    IN  IF S = {} THEN 0 ELSE Min(S)

\* TwoFactorCode.objects.filter(user=user, is_used=False).latest('created_at')
latest_unused(cs, user) ==
    LET S == {i \in 1..Len(cs) : cs[i].user = user /\ ~cs[i].is_used}
    IN  IF S = {} THEN 0 ELSE Max(S)

\* mutant: the owner of the code is not part of the filter
latest_unused_with_code_any_owner(cs, user, code) ==
    LET S == {i \in 1..Len(cs) : cs[i].code = code /\ ~cs[i].is_used}
    IN  IF S = {} THEN 0 ELSE Max(S)

\* mutant: the oldest matching row instead of the latest
latest_unused_with_code_oldest(cs, user, code) ==
    LET S == {i \in 1..Len(cs) :
                 cs[i].user = user /\ cs[i].code = code /\ ~cs[i].is_used}
    IN  IF S = {} THEN 0 ELSE Min(S)

\* TwoFactorCode.objects.filter(user=user, code=code, is_used=False).latest('created_at')
latest_unused_with_code(cs, user, code) ==
    LET S == {i \in 1..Len(cs) :
                 cs[i].user = user /\ cs[i].code = code /\ ~cs[i].is_used}
    IN  IF S = {} THEN 0 ELSE Max(S)

\* TemporaryToken.objects.get(token=token, is_used=False); 0 is DoesNotExist
get_unused_token(toks, token) ==
    LET S == {i \in 1..Len(toks) : toks[i].token = token /\ ~toks[i].is_used}
    IN  IF S = {} THEN 0 ELSE Max(S)

\* obj.is_used = True; obj.save().  grants is history only: the number of
\* logins the row has authorized.
\* mutant: the row is not saved as used
save_used_not_saved(tbl, i) ==
    [tbl EXCEPT ![i].grants = IF @ < 2 THEN @ + 1 ELSE @]

save_used(tbl, i) ==
    [tbl EXCEPT ![i].is_used = TRUE, ![i].grants = IF @ < 2 THEN @ + 1 ELSE @]

\* history only: a step-two call with this (valid) token was refused for its code
note_denial(toks, k) == [toks EXCEPT ![k].denials = 1]

(***************************************************************************)
(* Second-factor check of the inline path, management_interface.py         *)
(* 251-274: result is [verified, codes, raised].                           *)
(***************************************************************************)
\* mutant: the second factor is not checked
inline_second_factor_unchecked(user, code, cs, t) ==
    [verified |-> TRUE, codes |-> cs, raised |-> FALSE]

inline_second_factor(user, code, cs, t) ==
    LET method == users[user].two_fa_method IN
    IF method = "SMS" THEN
        LET i == latest_unused(cs, user) IN
        IF i # 0 /\ code_is_valid(cs[i], t) /\ cs[i].code = code
        THEN [verified |-> TRUE, codes |-> save_used(cs, i), raised |-> FALSE]
        ELSE [verified |-> FALSE, codes |-> cs, raised |-> FALSE]
    ELSE IF method = "GOOGLE_AUTH" THEN
        IF users[user].two_fa_secret = None
        THEN [verified |-> FALSE, codes |-> cs, raised |-> TRUE]
        ELSE [verified |-> verify_totp(users[user].two_fa_secret, code, t),
              codes |-> cs, raised |-> FALSE]
    ELSE [verified |-> FALSE, codes |-> cs, raised |-> FALSE]

(***************************************************************************)
(* Second-factor check of REST step two, views.py 143-164.                 *)
(***************************************************************************)
rest_second_factor(user, code, cs, t) ==
    LET method == users[user].two_fa_method IN
    IF method = "SMS" THEN
        LET i == latest_unused_with_code(cs, user, code) IN
        IF i # 0 /\ code_is_valid(cs[i], t)
        THEN [verified |-> TRUE, codes |-> save_used(cs, i), raised |-> FALSE]
        ELSE [verified |-> FALSE, codes |-> cs, raised |-> FALSE]
    ELSE IF method = "GOOGLE_AUTH" THEN
        IF users[user].two_fa_secret = None
        THEN [verified |-> FALSE, codes |-> cs, raised |-> TRUE]
        ELSE [verified |-> verify_totp(users[user].two_fa_secret, code, t),
              codes |-> cs, raised |-> FALSE]
    ELSE [verified |-> FALSE, codes |-> cs, raised |-> FALSE]

(***************************************************************************)
(* OpenVPNManagementInterface._process_auth_request as a decision:         *)
(* [verdict, codes] with verdict "allow", "deny" or "raise" (an exception  *)
(* other than socket.error leaves the method without a reply).             *)
(***************************************************************************)
\* mutant: a failed second-factor check uses up the account's latest code
process_auth_request_consuming(username, password, cs, t) ==
    IF HasSemi(password) THEN
        LET user == authenticate(username, password_part(password)) IN
        IF user = None THEN [verdict |-> "deny", codes |-> cs]
        ELSE IF users[user].two_fa_method = "NONE"
        THEN [verdict |-> "allow", codes |-> cs]
        ELSE LET r == inline_second_factor(user, code_part(password), cs, t) IN
             IF r.raised THEN [verdict |-> "raise", codes |-> cs]
             ELSE IF r.verified THEN [verdict |-> "allow", codes |-> r.codes]
             ELSE [verdict |-> "deny",
                   codes |-> IF latest_unused(cs, user) = 0 THEN cs
                             ELSE save_used(cs, latest_unused(cs, user))]
    ELSE
        LET user == authenticate(username, password) IN
        IF user = None THEN [verdict |-> "deny", codes |-> cs]
        ELSE IF users[user].two_fa_method # "NONE"
        THEN [verdict |-> "deny", codes |-> cs]
        ELSE [verdict |-> "allow", codes |-> cs]

process_auth_request(username, password, cs, t) ==
    IF HasSemi(password) THEN
        LET user == authenticate(username, password_part(password)) IN
        IF user = None THEN [verdict |-> "deny", codes |-> cs]
        ELSE IF users[user].two_fa_method = "NONE"
        THEN [verdict |-> "allow", codes |-> cs]
        ELSE LET r == inline_second_factor(user, code_part(password), cs, t) IN
             IF r.raised THEN [verdict |-> "raise", codes |-> cs]
             ELSE IF r.verified THEN [verdict |-> "allow", codes |-> r.codes]
             ELSE [verdict |-> "deny", codes |-> cs]
    ELSE
        LET user == authenticate(username, password) IN
        IF user = None THEN [verdict |-> "deny", codes |-> cs]
        ELSE IF users[user].two_fa_method # "NONE"
        THEN [verdict |-> "deny", codes |-> cs]
        ELSE [verdict |-> "allow", codes |-> cs]

\* _allow_auth / _deny_auth: the command line handed to send_command
allow_command(cid, kid) == "client-auth-nt " \o cid \o " " \o kid

\* mutant: the reason text is another one
deny_command_other_reason(cid, kid) ==
    "client-deny " \o cid \o " " \o kid \o " \"Second factor required\""

deny_command(cid, kid) ==
    "client-deny " \o cid \o " " \o kid \o " \"Authentication failed\""

reply_command(verdict, cid, kid) ==
    IF verdict = "allow" THEN allow_command(cid, kid) ELSE deny_command(cid, kid)

\* mutant: a write that faults is repeated until the command is written
send_command_until_written(out, command, ok) ==
    Append(out, command \o "\n")

\* mutant: the command is written without the newline
send_command_no_newline(out, command, ok) ==
    IF ok THEN Append(out, command) ELSE out

\* send_command on an open socket: sendall(command + "\n") unless it faults
send_command(out, command, ok) ==
    IF ok THEN Append(out, command \o "\n") ELSE out

(***************************************************************************)
(* Inputs.                                                                 *)
(***************************************************************************)
CodeDigits == {"1", "2"}

UsernameInputs == UserNames \cup {"", "mallory"}

PasswordInputs == {"", "pw", "zz"}

\* codes a caller may present at time t
CodeInputs(t) ==
    {Rep6(d) : d \in CodeDigits} \cup {Otp("S3", timecode(t))}

\* contents of the inline password field
FieldInputs(t) ==
    {"pw", "zz", "pw;", "pw;111111;"} \cup {p \o ";" \o c : p \in {"pw", "zz"}, c \in CodeInputs(t)}

TokenInputs == {TokenStr(n) : n \in 1..MaxTokens} \cup {"", "bogus"}

Cids == {"5"}

Kids == {"9"}

Outcome(op, username, password, token, code, status, body) ==
    [op |-> op, username |-> username, password |-> password, token |-> token,
     code |-> code, status |-> status, body |-> body]

\* request workers of the REST service, and the worker thread of the bridge
Workers == {"w1", "w2"}

Bridge == "bridge"

Threads == Workers \cup {Bridge}

NoLocals == [k |-> 0, i |-> 0, user |-> "", code |-> "", verified |-> FALSE,
             cid |-> "", kid |-> ""]

\* _run 143-147: no request is being collected
NoRequest == [current_cid |-> None, current_kid |-> None, username |-> None,
              password |-> None, collecting_env |-> FALSE]

Idle == [op |-> "idle", username |-> "", password |-> "", token |-> "",
         code |-> "", status |-> "", body |-> ""]

\* the threads of one process that call the module's functions: the thread
\* AuthserverConfig.ready spawns, and the thread of the management command
Callers == {"ready", "command"}

\* the value None of the module's global and of a local that refers to no
\* object; the objects are numbered from 1 in the order of their creation
NoInterface == 0

\* a thread that has not begun its call
NotCalled == [pc |-> "idle", action |-> None, interface |-> NoInterface]

\* the module as its import leaves it (324), with no thread in a call
InitProcess ==
    /\ stale = 0
    /\ management_interface = NoInterface
    /\ instances = <<>>
    /\ callers = [c \in Callers |-> NotCalled]

(***************************************************************************)
(* Sequential specification: every handler runs to completion, and its     *)
(* outcome is delivered (Respond) before the next call starts.             *)
(***************************************************************************)
Init ==
    /\ now = 0
    /\ codes = <<>>
    /\ tokens = <<>>
    /\ authtoken = {}
    /\ last = Idle
    /\ sent = <<>>
    /\ pc = [w \in Threads |-> "idle"]
    /\ loc = [w \in Threads |-> NoLocals]
    /\ stream = "" /\ peer = <<>> /\ wire = "" /\ answered = 0
    /\ lines = <<>> /\ asm = NoRequest /\ bpc = "loop" /\ decisions = <<>>
    /\ running = TRUE /\ sock = "open" /\ link = "up" /\ retry_count = 0
    /\ ctx = "start" /\ mpc = "idle" /\ sc_command = None /\ sc_response = None
    /\ data = None /\ conns = 1
    /\ InitProcess

Tick ==
    /\ last = Idle
    /\ now + TickMinutes <= MaxTime
    /\ now' = now + TickMinutes
    /\ UNCHANGED <<codes, tokens, authtoken, last, sent, convars, brvars>>

\* LoginStep1View.post
LoginStep1(username, password) ==
    LET user == authenticate(username, password)
        out(status, body) == Outcome("step1", username, password, "", "", status, body)
 IN
    /\ last = Idle
    /\ UNCHANGED <<now, sent, convars, brvars>>
    /\ IF username = "" \/ password = "" THEN
            /\ last' = out("400", "Please provide both username and password")
            /\ UNCHANGED <<codes, tokens, authtoken>>
       ELSE IF user = None THEN
            /\ last' = out("401", "Invalid credentials")
            /\ UNCHANGED <<codes, tokens, authtoken>>
       ELSE IF users[user].two_fa_method = "NONE" THEN
            /\ authtoken' = authtoken \cup {user}
            /\ last' = out("200", "access_token")
            /\ UNCHANGED <<codes, tokens>>
       ELSE
            /\ Len(tokens) < MaxTokens
            /\ tokens' = generate_token(tokens, user, now)
            /\ UNCHANGED authtoken
            /\ IF users[user].two_fa_method = "SMS" THEN
                    IF users[user].phone_number = None THEN
                        /\ last' = out("500", "User has no phone number")
                        /\ UNCHANGED codes
                    ELSE
                        /\ Len(codes) < MaxCodes
                        /\ \E d \in CodeDigits :
                               codes' = generate_code(codes, user, Rep6(d), now)
                        /\ last' = out("200", "temporary_token")
               ELSE
                    /\ last' = out("200", "temporary_token")
                    /\ UNCHANGED codes

\* LoginStep2View.post
LoginStep2(temporary_token, verification_code) ==
    LET k == get_unused_token(tokens, temporary_token)
        out(status, body) ==
            Outcome("step2", "", "", temporary_token, verification_code, status, body)
    IN
    /\ last = Idle
    /\ UNCHANGED <<now, sent, convars, brvars>>
    /\ IF temporary_token = "" \/ verification_code = "" THEN
            /\ last' = out("400", "Please provide both temporary_token and verification code")
            /\ UNCHANGED <<codes, tokens, authtoken>>
       ELSE IF k = 0 THEN
            /\ last' = out("401", "Invalid or expired temporary token")
            /\ UNCHANGED <<codes, tokens, authtoken>>
       ELSE IF ~token_is_valid(tokens[k], now) THEN
            /\ last' = out("401", "Temporary token has expired. Please login again.")
            /\ UNCHANGED <<codes, tokens, authtoken>>
       ELSE
            LET r == rest_second_factor(tokens[k].user, verification_code, codes, now) IN
            IF r.raised THEN
                /\ last' = out("500", "verify_totp raised")
                /\ UNCHANGED <<codes, tokens, authtoken>>
            ELSE IF r.verified THEN
                /\ codes' = r.codes
                /\ tokens' = save_used(tokens, k)
                /\ authtoken' = authtoken \cup {tokens[k].user}
                /\ last' = out("200", "access_token")
            ELSE
                /\ last' = out("401", "Invalid verification code")
                /\ tokens' = note_denial(tokens, k)
                /\ UNCHANGED <<codes, authtoken>>

\* SetupSMSAuthView.post by request.user = user, who re-enrols the phone
\* number already stored: user.save() rewrites the same row, then
\* TwoFactorService.send_sms_code(user) creates a test code
SetupSMSAuth(user, phone_number) ==
    LET out(status, body) == Outcome("setup_sms", user, "", "", "", status, body) IN
    /\ last = Idle
    /\ users[user].two_fa_method = "SMS"
    /\ UNCHANGED <<now, tokens, authtoken, sent, convars, brvars>>
    /\ IF phone_number = "" THEN
            /\ last' = out("400", "Please provide a phone number")
            /\ UNCHANGED codes
       ELSE
            /\ phone_number = users[user].phone_number
            /\ Len(codes) < MaxCodes
            /\ \E d \in CodeDigits :
                   codes' = generate_code(codes, user, Rep6(d), now)
            /\ last' = out("200", "test_code")

\* _process_auth_request called by the service loop on an open socket
ProcessAuthRequest(username, password, cid, kid) ==
    LET d == process_auth_request(username, password, codes, now) IN
    /\ last = Idle
    /\ Len(sent) < MaxSent
    /\ codes' = d.codes
    /\ last' = Outcome("inline", username, password, "", "", d.verdict, "")
    /\ IF d.verdict = "raise" THEN UNCHANGED sent
       ELSE \E ok \in BOOLEAN :
                sent' = send_command(sent, reply_command(d.verdict, cid, kid), ok)
    /\ UNCHANGED <<now, tokens, authtoken, convars, brvars>>

\* the outcome has been delivered to the caller
Respond ==
    /\ last # Idle
    /\ last' = Idle
    /\ UNCHANGED <<now, codes, tokens, authtoken, sent, convars, brvars>>

Next ==
    \/ Tick
    \/ Respond
    \/ \E u \in UsernameInputs, p \in PasswordInputs : LoginStep1(u, p)
    \/ \E u \in UserNames, ph \in {"", "555"} : SetupSMSAuth(u, ph)
    \/ \E k \in TokenInputs, c \in CodeInputs(now) \cup {""} : LoginStep2(k, c)
    \/ \E u \in UsernameInputs \ {""}, p \in FieldInputs(now), cid \in Cids, kid \in Kids :
           ProcessAuthRequest(u, p, cid, kid)

vars == <<now, codes, tokens, authtoken, last, sent, pc, loc,
          stream, peer, wire, answered, lines, asm, bpc, decisions, ifvars>>

Spec == Init /\ [][Next]_vars

TypeOK ==
    /\ now \in 0..MaxTime
    /\ Len(codes) <= MaxCodes
    /\ Len(tokens) <= MaxTokens
    /\ authtoken \subseteq UserNames

(***************************************************************************)
(* Concurrent specification.  The REST workers run LoginStep2View.post and *)
(* the bridge thread runs _process_auth_request; each database access      *)
(* (objects.get, .latest, save) is one step, and the steps of different    *)
(* threads interleave: the handlers use no transaction, no row lock and no *)
(* conditional update.                                                     *)
(***************************************************************************)
\* views.py 121-141: read the request, TemporaryToken.objects.get, is_valid
S2Begin(w, temporary_token, verification_code) ==
    LET k == get_unused_token(tokens, temporary_token) IN
    /\ pc[w] = "idle"
    /\ temporary_token # "" /\ verification_code # ""
    /\ k # 0
    /\ token_is_valid(tokens[k], now)
    /\ pc' = [pc EXCEPT ![w] = "verify"]
    /\ loc' = [loc EXCEPT ![w] = [NoLocals EXCEPT !.k = k, !.user = tokens[k].user,
                                                   !.code = verification_code]]
    /\ UNCHANGED <<now, codes, tokens, authtoken, last, sent, brvars>>

\* views.py 143-164: the TwoFactorCode query and is_valid, or verify_totp
S2Verify(w) ==
    LET user == loc[w].user
        method == users[user].two_fa_method
        i == latest_unused_with_code(codes, user, loc[w].code)
    IN
    /\ pc[w] = "verify"
    /\ IF method = "SMS" THEN
            IF i # 0 /\ code_is_valid(codes[i], now)
            THEN /\ pc' = [pc EXCEPT ![w] = "save_code"]
                 /\ loc' = [loc EXCEPT ![w].i = i]
            ELSE /\ pc' = [pc EXCEPT ![w] = "finish"]
                 /\ UNCHANGED loc
       ELSE IF method = "GOOGLE_AUTH" THEN
            IF users[user].two_fa_secret = None
            THEN /\ pc' = [pc EXCEPT ![w] = "idle"]
                 /\ loc' = [loc EXCEPT ![w] = NoLocals]
            ELSE /\ pc' = [pc EXCEPT ![w] = "finish"]
                 /\ loc' = [loc EXCEPT ![w].verified =
                                verify_totp(users[user].two_fa_secret, loc[w].code, now)]
       ELSE /\ pc' = [pc EXCEPT ![w] = "finish"]
            /\ UNCHANGED loc
    /\ UNCHANGED <<now, codes, tokens, authtoken, last, sent, brvars>>

\* views.py 156-158: code_obj.is_used = True; code_obj.save(); verified = True
S2SaveCode(w) ==
    /\ pc[w] = "save_code"
    /\ codes' = save_used(codes, loc[w].i)
    /\ pc' = [pc EXCEPT ![w] = "finish"]
    /\ loc' = [loc EXCEPT ![w].verified = TRUE]
    /\ UNCHANGED <<now, tokens, authtoken, last, sent, brvars>>

\* views.py 166-182: mark the token used and issue the permanent token, or 401
S2Finish(w) ==
    /\ pc[w] = "finish"
    /\ IF loc[w].verified
       THEN /\ tokens' = save_used(tokens, loc[w].k)
            /\ authtoken' = authtoken \cup {loc[w].user}
       ELSE /\ tokens' = note_denial(tokens, loc[w].k)
            /\ UNCHANGED authtoken
    /\ pc' = [pc EXCEPT ![w] = "idle"]
    /\ loc' = [loc EXCEPT ![w] = NoLocals]
    /\ UNCHANGED <<now, codes, last, sent, brvars>>

\* management_interface.py 233-261 for a password field with a code, up to
\* and including the TwoFactorCode query; every other outcome replies at once
InlineBegin(username, password, cid, kid) ==
    LET user == authenticate(username, password_part(password))
        i == latest_unused(codes, user)
        d == process_auth_request(username, password, codes, now)
    IN
    /\ pc[Bridge] = "idle"
    /\ Len(sent) < MaxSent
    /\ HasSemi(password)
    /\ IF user # None /\ users[user].two_fa_method = "SMS" /\ d.verdict = "allow"
       THEN /\ pc' = [pc EXCEPT ![Bridge] = "save_code"]
            /\ loc' = [loc EXCEPT ![Bridge] =
                           [NoLocals EXCEPT !.i = i, !.user = user, !.cid = cid, !.kid = kid]]
            /\ UNCHANGED sent
       ELSE /\ UNCHANGED <<pc, loc>>
            /\ IF d.verdict = "raise" THEN UNCHANGED sent
               ELSE \E ok \in BOOLEAN :
                        sent' = send_command(sent, reply_command(d.verdict, cid, kid), ok)
    /\ UNCHANGED <<now, codes, tokens, authtoken, last, brvars>>

\* management_interface.py 262-264 and 276-278: save the code, then allow
InlineSaveCode ==
    /\ pc[Bridge] = "save_code"
    /\ codes' = save_used(codes, loc[Bridge].i)
    /\ \E ok \in BOOLEAN :
           sent' = send_command(sent, allow_command(loc[Bridge].cid, loc[Bridge].kid), ok)
    /\ pc' = [pc EXCEPT ![Bridge] = "idle"]
    /\ loc' = [loc EXCEPT ![Bridge] = NoLocals]
    /\ UNCHANGED <<now, tokens, authtoken, last, brvars>>

ConcTick ==
    /\ now + TickMinutes <= MaxTime
    /\ now' = now + TickMinutes
    /\ UNCHANGED <<codes, tokens, authtoken, last, sent, convars, brvars>>

NextConc ==
    \/ ConcTick
    \/ Respond
    \/ \E u \in {"bob", "carol"} : LoginStep1(u, users[u].password)
    \/ \E w \in Workers, k \in TokenInputs, c \in CodeInputs(now) : S2Begin(w, k, c)
    \/ \E w \in Workers : S2Verify(w)
    \/ \E w \in Workers : S2SaveCode(w)
    \/ \E w \in Workers : S2Finish(w)
    \/ \E u \in {"bob", "carol"}, c \in CodeInputs(now), cid \in Cids, kid \in Kids :
           InlineBegin(u, "pw;" \o c, cid, kid)
    \/ InlineSaveCode

SpecConc == Init /\ [][NextConc]_vars

(***************************************************************************)
(* The service loop of the bridge, OpenVPNManagementInterface._run, on a   *)
(* connected socket.                                                       *)
(***************************************************************************)
BufSize == 4096

IsDigit(c) == c \in {"0", "1", "2", "3", "4", "5", "6", "7", "8", "9"}

StartsWith(s, p) == Len(s) >= Len(p) /\ SubSeq(s, 1, Len(p)) = p

\* the number of consecutive digits of s from position i on
RECURSIVE DigitRun(_, _)
DigitRun(s, i) ==
    IF i <= Len(s) /\ IsDigit(CharAt(s, i)) THEN 1 + DigitRun(s, i + 1) ELSE 0

IsBreak(c) == c \in {"\n", "\r"}

\* str.splitlines() for the line boundaries \n, \r and \r\n
RECURSIVE splitlines(_)
splitlines(s) ==
    IF s = "" THEN <<>>
    ELSE LET B == {i \in 1..Len(s) : IsBreak(CharAt(s, i))} IN
         IF B = {} THEN <<s>>
         ELSE LET n == Min(B)
                  skip == IF CharAt(s, n) = "\r" /\ n < Len(s) /\ CharAt(s, n + 1) = "\n"
                          THEN 2 ELSE 1
              IN  <<SubSeq(s, 1, n - 1)>> \o splitlines(SubSeq(s, n + skip, Len(s)))

\* auth_request_pattern.match(line):  >CLIENT:CONNECT,(\d+),(\d+)
auth_request_match(line) ==
    LET p == ">CLIENT:CONNECT,"
        a == Len(p) + 1
        n1 == DigitRun(line, a)
        b == a + n1 + 1
        n2 == DigitRun(line, b)
    IN  IF /\ StartsWith(line, p)
           /\ n1 >= 1
           /\ a + n1 <= Len(line)
           /\ CharAt(line, a + n1) = ","
           /\ n2 >= 1
        THEN [matched |-> TRUE, cid |-> SubSeq(line, a, a + n1 - 1),
              kid |-> SubSeq(line, b, b + n2 - 1)]
        ELSE [matched |-> FALSE, cid |-> None, kid |-> None]

\* username_pattern.match(line):  >CLIENT:ENV,username=(.+)
username_match(line) ==
    LET p == ">CLIENT:ENV,username=" IN
    IF StartsWith(line, p) /\ Len(line) > Len(p)
    THEN [matched |-> TRUE, value |-> SubSeq(line, Len(p) + 1, Len(line))]
    ELSE [matched |-> FALSE, value |-> None]

\* password_pattern.match(line):  >CLIENT:ENV,password=(.+)
password_match(line) ==
    LET p == ">CLIENT:ENV,password=" IN
    IF StartsWith(line, p) /\ Len(line) > Len(p)
    THEN [matched |-> TRUE, value |-> SubSeq(line, Len(p) + 1, Len(line))]
    ELSE [matched |-> FALSE, value |-> None]

\* end_pattern.match(line):  >CLIENT:ENV,END
end_match(line) == StartsWith(line, ">CLIENT:ENV,END")

\* mutant: the first value of a field is kept, later lines are ignored
assemble_first_value(a, line) ==
    LET am == auth_request_match(line)
        um == username_match(line)
        pm == password_match(line)
        nothing(b) == [asm |-> b, call |-> "none"]
    IN
    IF am.matched THEN
        nothing([current_cid |-> am.cid, current_kid |-> am.kid, username |-> None,
                 password |-> None, collecting_env |-> TRUE])
    ELSE IF ~a.collecting_env THEN nothing(a)
    ELSE IF um.matched
    THEN nothing(IF a.username = None THEN [a EXCEPT !.username = um.value] ELSE a)
    ELSE IF pm.matched
    THEN nothing(IF a.password = None THEN [a EXCEPT !.password = pm.value] ELSE a)
    ELSE IF end_match(line) THEN
        [asm |-> NoRequest,
         call |-> IF /\ a.username # None /\ a.password # None
                     /\ a.current_cid # None /\ a.current_kid # None
                  THEN "process" ELSE "incomplete"]
    ELSE nothing(a)

\* mutant: an incomplete request is dropped without a reply
assemble_incomplete_silent(a, line) ==
    LET am == auth_request_match(line)
        um == username_match(line)
        pm == password_match(line)
        nothing(b) == [asm |-> b, call |-> "none"]
    IN
    IF am.matched THEN
        nothing([current_cid |-> am.cid, current_kid |-> am.kid, username |-> None,
                 password |-> None, collecting_env |-> TRUE])
    ELSE IF ~a.collecting_env THEN nothing(a)
    ELSE IF um.matched THEN nothing([a EXCEPT !.username = um.value])
    ELSE IF pm.matched THEN nothing([a EXCEPT !.password = pm.value])
    ELSE IF end_match(line) THEN
        [asm |-> NoRequest,
         call |-> IF /\ a.username # None /\ a.password # None
                     /\ a.current_cid # None /\ a.current_kid # None
                  THEN "process" ELSE "none"]
    ELSE nothing(a)

\* mutant: field and END lines are taken while no request is collected
assemble_idle_takes_fields(a, line) ==
    LET am == auth_request_match(line)
        um == username_match(line)
        pm == password_match(line)
        nothing(b) == [asm |-> b, call |-> "none"]
    IN
    IF am.matched THEN
        nothing([current_cid |-> am.cid, current_kid |-> am.kid, username |-> None,
                 password |-> None, collecting_env |-> TRUE])
    ELSE IF um.matched THEN nothing([a EXCEPT !.username = um.value])
    ELSE IF pm.matched THEN nothing([a EXCEPT !.password = pm.value])
    ELSE IF end_match(line) THEN
        [asm |-> NoRequest,
         call |-> IF /\ a.username # None /\ a.password # None
                     /\ a.current_cid # None /\ a.current_kid # None
                  THEN "process" ELSE "incomplete"]
    ELSE nothing(a)

\* mutant: a CONNECT line keeps the fields collected so far
assemble_keeps_fields(a, line) ==
    LET am == auth_request_match(line)
        um == username_match(line)
        pm == password_match(line)
        nothing(b) == [asm |-> b, call |-> "none"]
    IN
    IF am.matched THEN
        nothing([a EXCEPT !.current_cid = am.cid, !.current_kid = am.kid,
                          !.collecting_env = TRUE])
    ELSE IF ~a.collecting_env THEN nothing(a)
    ELSE IF um.matched THEN nothing([a EXCEPT !.username = um.value])
    ELSE IF pm.matched THEN nothing([a EXCEPT !.password = pm.value])
    ELSE IF end_match(line) THEN
        [asm |-> NoRequest,
         call |-> IF /\ a.username # None /\ a.password # None
                     /\ a.current_cid # None /\ a.current_kid # None
                  THEN "process" ELSE "incomplete"]
    ELSE nothing(a)

(***************************************************************************)
(* One iteration of `for line in data.splitlines()` (lines 161-209) on the *)
(* loop's local variables a: the new locals and what the iteration calls:  *)
(* "process" (_process_auth_request), "incomplete" (_deny_auth) or "none". *)
(***************************************************************************)
assemble(a, line) ==
    LET am == auth_request_match(line)
        um == username_match(line)
        pm == password_match(line)
        nothing(b) == [asm |-> b, call |-> "none"]
    IN
    IF am.matched THEN
        nothing([current_cid |-> am.cid, current_kid |-> am.kid, username |-> None,
                 password |-> None, collecting_env |-> TRUE])
    ELSE IF ~a.collecting_env THEN nothing(a)
    ELSE IF um.matched THEN nothing([a EXCEPT !.username = um.value])
    ELSE IF pm.matched THEN nothing([a EXCEPT !.password = pm.value])
    ELSE IF end_match(line) THEN
        [asm |-> NoRequest,
         call |-> IF /\ a.username # None /\ a.password # None
                     /\ a.current_cid # None /\ a.current_kid # None
                  THEN "process" ELSE "incomplete"]
    ELSE nothing(a)

\* the iteration with the decision it calls for: the verdict of
\* _process_auth_request, or "deny" for an incomplete request (lines 198-202)
line_step(a, cs, t, line) ==
    LET r == assemble(a, line)
        d == process_auth_request(a.username, a.password, cs, t)
    IN  [asm |-> r.asm, call |-> r.call,
         verdict |-> IF r.call = "process" THEN d.verdict
                     ELSE IF r.call = "incomplete" THEN "deny" ELSE "none",
         codes |-> IF r.call = "process" THEN d.codes ELSE cs]

\* the peer's answer to a command, and the line it greets a client with
Response == "SUCCESS: ok\n"

Greeting == ">INFO:OpenVPN Management Interface\r\n"

Decision(a, verdict) ==
    [cid |-> a.current_cid, kid |-> a.current_kid, username |-> a.username,
     password |-> a.password, verdict |-> verdict]

RECURSIVE Concat(_)
Concat(segments) ==
    IF segments = <<>> THEN "" ELSE Head(segments) \o Concat(Tail(segments))

\* socket.recv(4096) on self.socket: the outcomes the call can have.  "data"
\* are the bytes received, "eof" the zero-byte read after the peer closed,
\* "error" a socket.error; no outcome means the call blocks.  A call made
\* after stop() closed the socket raises; a call that was blocked when the
\* socket was closed keeps waiting on the connection.
recv(s, l, w) ==
    LET n == IF Len(w) < BufSize THEN Len(w) ELSE BufSize IN
    (IF s = "closed" THEN {[kind |-> "error", data |-> None]} ELSE {})
    \cup (IF s \notin {"open", "closed"} THEN {}
          ELSE IF w # "" THEN {[kind |-> "data", data |-> SubSeq(w, 1, n)]}
          ELSE IF l = "down" THEN {[kind |-> "eof", data |-> ""]}
          ELSE IF l = "reset" THEN {[kind |-> "error", data |-> None]}
          ELSE {})

\* the bytes left on the connection after the outcome o of a read
after_recv(w, o) ==
    IF o.kind = "data" THEN SubSeq(w, Len(o.data) + 1, Len(w)) ELSE w

\* socket.sendall on self.socket: TRUE when the bytes were written, FALSE
\* for a socket.error; a socket that is not open, or whose connection was
\* reset, only raises
sendall(s, l) ==
    {FALSE} \cup (IF s = "open" /\ l \in {"up", "down"} THEN {TRUE} ELSE {})

\* send_command 88: the value returned when self.socket is not set
NotConnectedResult == None

\* send_command 96: the value returned after a socket.error
IOErrorResult == None

\* send_command 92-96: the value returned for the outcome o of the read
returned(o) == IF o.kind = "error" THEN IOErrorResult ELSE o.data

\* the next k segments of the peer's bytes arrive
PeerSend(k) ==
    /\ link = "up"
    /\ k \in 1..Len(peer)
    /\ wire' = wire \o Concat(SubSeq(peer, 1, k))
    /\ peer' = SubSeq(peer, k + 1, Len(peer))
    /\ UNCHANGED <<dbvars, last, sent, convars, stream, answered, lines, asm, bpc,
                   decisions, ifvars>>

\* the peer answers the oldest command it has not answered
PeerRespond ==
    /\ link = "up"
    /\ answered < Len(sent)
    /\ answered' = answered + 1
    /\ wire' = wire \o Response
    /\ UNCHANGED <<dbvars, last, sent, convars, stream, peer, lines, asm, bpc,
                   decisions, ifvars>>

\* _run 149: while self.running, evaluated when the lines of a read are done
LoopCheck ==
    /\ bpc = "loop"
    /\ lines = <<>>
    /\ bpc' = IF running THEN "recv" ELSE "done"
    /\ UNCHANGED <<dbvars, last, sent, convars, stream, peer, wire, answered, lines,
                   asm, decisions, ifvars>>

\* _run 152-161: data = self.socket.recv(4096); data.splitlines()
BridgeRecv ==
    /\ bpc = "recv"
    /\ \E o \in recv(sock, link, wire) :
           /\ o.kind = "data"
           /\ lines' = splitlines(o.data)
           /\ wire' = after_recv(wire, o)
    /\ bpc' = "loop"
    /\ UNCHANGED <<dbvars, last, sent, convars, stream, peer, answered, asm,
                   decisions, ifvars>>

\* _run 161-209: the next line of the read, with the decision and the reply
\* command it leads to; send_command writes the command unless the write
\* faults, and then reads the response
BridgeLine ==
    LET r == line_step(asm, codes, now, Head(lines)) IN
    /\ bpc = "loop"
    /\ lines # <<>>
    /\ lines' = Tail(lines)
    /\ asm' = r.asm
    /\ codes' = r.codes
    /\ IF r.call = "none" THEN UNCHANGED <<sent, bpc, decisions, sc_command, sc_response>>
       ELSE /\ decisions' = Append(decisions, Decision(asm, r.verdict))
            /\ IF r.verdict = "raise"
               THEN bpc' = "dead" /\ UNCHANGED <<sent, sc_command, sc_response>>
               ELSE \E ok \in sendall(sock, link) :
                        /\ sc_command' = reply_command(r.verdict, asm.current_cid, asm.current_kid)
                        /\ sent' = send_command(sent, sc_command', ok)
                        /\ sc_response' = IF ok THEN Pending ELSE IOErrorResult
                        /\ bpc' = IF ok THEN "await" ELSE "loop"
    /\ UNCHANGED <<now, tokens, authtoken, last, convars, stream, peer, wire, answered,
                   running, sock, link, retry_count, ctx, mpc, data, conns, procvars>>

\* send_command 92-96: response = self.socket.recv(4096); a socket.error
\* is logged and None is returned
BridgeRecvResponse ==
    /\ bpc = "await"
    /\ \E o \in recv(sock, link, wire) :
           /\ sc_response' = returned(o)
           /\ wire' = after_recv(wire, o)
    /\ bpc' = "loop"
    /\ UNCHANGED <<dbvars, last, sent, convars, stream, peer, answered, lines, asm,
                   decisions, running, sock, link, retry_count, ctx, mpc, sc_command,
                   data, conns, procvars>>

\* what the peer may send on one connection, cut into the segments in which
\* the bytes may arrive (a read returns one or more whole segments)
Streams ==
    { << ">CLIENT:CONNECT,5,9\n", ">CLIENT:ENV,username=bob\n",
         ">CLIENT:ENV,password=pw;2222", "22\n", ">CLIENT:ENV,END\n" >>,
      << ">CLIENT:CONNECT,5,1", "2\n", ">CLIENT:ENV,username=al", "ice\n",
         ">CLIENT:ENV,password=pw\n", ">CLIENT:ENV,END\n" >>,
      << ">CLIENT:CONNECT,5,9\r\n", ">CLIENT:ENV,username=dave\r\n",
         ">CLIENT:ENV,password=pw;111111\r", "\n>CLIENT:ENV,END\r\n" >>,
      << ">CLIENT:CONNECT,5,9\n>CLIENT:ENV,username=alice\n", ">CLIENT:CONNECT,7,1\n",
         ">CLIENT:ENV,password=pw\n", ">CLIENT:ENV,", "END\n", ">INFO:x\n" >>,
      << ">CLIENT:CONNECT,5,9\n", ">CLIENT:ENV,END\n", ">CLIENT:CONNECT,7,1\n",
         ">CLIENT:ENV,username=alice\n", ">CLIENT:ENV,password=zz\n", ">CLIENT:ENV,END\n" >>,
      << ">CLIENT:CONNECT,5,9\n>CLIENT:ENV,username=bob\n>CLIENT:ENV,password=pw\n",
         ">CLIENT:ENV,END\n",
         ">CLIENT:CONNECT,5,9\n>CLIENT:ENV,username=bob\n>CLIENT:ENV,password=pw;111111\n",
         ">CLIENT:ENV,END\n" >> }

\* the bridge is connected; bob has logged in at step one and holds a code
InitBridge ==
    /\ now = 0
    /\ codes = generate_code(<<>>, "bob", "222222", 0)
    /\ tokens = generate_token(<<>>, "bob", 0)
    /\ authtoken = {}
    /\ last = Idle
    /\ sent = <<>>
    /\ pc = [w \in Threads |-> "idle"]
    /\ loc = [w \in Threads |-> NoLocals]
    /\ peer \in Streams
    /\ stream = Concat(peer) /\ wire = "" /\ answered = 0
    /\ lines = <<>> /\ asm = NoRequest /\ bpc = "loop" /\ decisions = <<>>
    /\ running = TRUE /\ sock = "open" /\ link = "up" /\ retry_count = 0
    /\ ctx = "start" /\ mpc = "idle" /\ sc_command = "auth-retry none"
    /\ sc_response = Response /\ data = Greeting /\ conns = 1
    /\ InitProcess

NextBridge ==
    \/ \E k \in 1..Len(peer) : PeerSend(k)
    \/ PeerRespond
    \/ LoopCheck
    \/ BridgeRecv
    \/ BridgeLine
    \/ BridgeRecvResponse

SpecBridge == InitBridge /\ [][NextBridge]_vars

(***************************************************************************)
(* The life cycle of the interface: start(), stop(), connect() with its    *)
(* retries, the reconnects of the service loop, and send_command called    *)
(* from outside the worker.  One worker thread is modelled; the calling    *)
(* thread makes its calls one after the other.                             *)
(***************************************************************************)
\* mutant: the retry budget never runs out
retries_left_unbounded(rc) == TRUE

\* connect 69: retry_count < self.connect_retries, after the increment
retries_left(rc) == rc < connect_retries

\* connect() returns result to its call site in _run: 139-147 at the start,
\* 156-158 and 213-214 in the loop
ConnectReturn(result) ==
    /\ bpc' = IF result THEN "loop" ELSE "done"
    /\ running' = IF ~result /\ ctx = "start" THEN FALSE ELSE running
    /\ asm' = IF result /\ ctx = "start" THEN NoRequest ELSE asm

\* connect 65-74: the except branch of an attempt
AttemptFailed ==
    /\ retry_count' = retry_count + 1
    /\ IF retries_left(retry_count + 1)
       THEN bpc' = "sleep" /\ UNCHANGED <<running, asm>>
       ELSE ConnectReturn(FALSE)

\* what the peer sends on a connection it has accepted: nothing, its
\* greeting, its greeting and a request, or its greeting and the last
\* lines of a request
LifeStreams ==
    { <<>>,
      <<Greeting>>,
      <<Greeting, ">CLIENT:CONNECT,5,9\n>CLIENT:ENV,username=alice\n",
        ">CLIENT:ENV,password=pw\n>CLIENT:ENV,END\n">>,
      <<Greeting, ">CLIENT:ENV,password=pw\n>CLIENT:ENV,END\n">> }

CommandInputs == {"status"}

WorkerAlive == bpc \notin {"idle", "done", "dead"}

\* start() 102-110 when no thread of an earlier start() is alive
Start ==
    /\ mpc \in {"idle", "stopped"}
    /\ IF running THEN UNCHANGED <<bpc, running, ctx, retry_count, lines, mpc>>
       ELSE /\ ~WorkerAlive
            /\ running' = TRUE
            /\ bpc' = "connect"
            /\ ctx' = "start"
            /\ retry_count' = 0
            /\ lines' = <<>>
            /\ mpc' = "idle"
    /\ UNCHANGED <<dbvars, last, sent, convars, stream, peer, wire, answered, asm,
                   decisions, sock, link, sc_command, sc_response, data, conns, procvars>>

\* stop() 116-120
Stop ==
    /\ mpc \in {"idle", "stopped"}
    /\ IF ~running THEN UNCHANGED <<running, mpc>>
       ELSE running' = FALSE /\ mpc' = "stop_close"
    /\ UNCHANGED <<dbvars, last, sent, convars, stream, peer, wire, answered, lines,
                   asm, bpc, decisions, sock, link, retry_count, ctx, sc_command,
                   sc_response, data, conns, procvars>>

\* stop() 122-126: if self.socket: self.socket.close()
StopClose ==
    /\ mpc = "stop_close"
    /\ sock' = IF sock = "none" THEN "none" ELSE "closed"
    /\ mpc' = "stop_join"
    /\ UNCHANGED <<dbvars, last, sent, convars, stream, peer, wire, answered, lines,
                   asm, bpc, decisions, running, link, retry_count, ctx, sc_command,
                   sc_response, data, conns, procvars>>

\* stop() 128-133: self.thread.join(timeout=5.0) returns when the worker
\* has terminated or when the timeout has passed
StopJoin ==
    /\ mpc = "stop_join"
    /\ mpc' = "stopped"
    /\ UNCHANGED <<dbvars, last, sent, convars, stream, peer, wire, answered, lines,
                   asm, bpc, decisions, running, sock, link, retry_count, ctx,
                   sc_command, sc_response, data, conns, procvars>>

\* send_command(text) called from outside the worker, 86-91
SendCommand(text) ==
    /\ mpc \in {"idle", "stopped"}
    /\ ~WorkerAlive
    /\ Len(sent) < MaxCommands
    /\ sc_command' = text
    /\ IF sock = "none"
       THEN sc_response' = NotConnectedResult /\ UNCHANGED <<sent, mpc>>
       ELSE \E ok \in sendall(sock, link) :
                /\ sent' = send_command(sent, text, ok)
                /\ sc_response' = IF ok THEN Pending ELSE IOErrorResult
                /\ mpc' = IF ok THEN "send_await" ELSE mpc
    /\ UNCHANGED <<dbvars, last, convars, stream, peer, wire, answered, lines, asm,
                   bpc, decisions, running, sock, link, retry_count, ctx, data, conns, procvars>>

\* send_command 92-96 of that call
SendCommandRecv ==
    /\ mpc = "send_await"
    /\ \E o \in recv(sock, link, wire) :
           /\ sc_response' = returned(o)
           /\ wire' = after_recv(wire, o)
    /\ mpc' = "idle"
    /\ UNCHANGED <<dbvars, last, sent, convars, stream, peer, answered, lines, asm,
                   bpc, decisions, running, sock, link, retry_count, ctx, sc_command,
                   data, conns, procvars>>

\* connect 51-55: socket.socket(...), self.socket.connect((host, port))
ConnectAttempt ==
    /\ bpc = "connect"
    /\ wire' = ""
    /\ answered' = Len(sent)
    /\ \E reachable \in BOOLEAN, p \in LifeStreams :
           /\ reachable => conns < MaxConnects
           /\ conns' = IF reachable THEN conns + 1 ELSE conns
           /\ IF reachable
              THEN /\ sock' = "open" /\ link' = "up"
                   /\ peer' = p /\ stream' = Concat(p)
                   /\ bpc' = "greet"
                   /\ UNCHANGED <<retry_count, running, asm>>
              ELSE /\ sock' = "unconnected" /\ link' = "none"
                   /\ peer' = <<>> /\ stream' = ""
                   /\ AttemptFailed
    /\ UNCHANGED <<dbvars, last, sent, convars, lines, decisions, ctx, mpc,
                   sc_command, sc_response, data, procvars>>

\* connect 58: data = self.socket.recv(4096)
ConnectGreet ==
    /\ bpc = "greet"
    /\ \E o \in recv(sock, link, wire) :
           /\ wire' = after_recv(wire, o)
           /\ IF o.kind = "error"
              THEN AttemptFailed /\ UNCHANGED data
              ELSE /\ data' = o.data
                   /\ bpc' = "setup"
                   /\ UNCHANGED <<retry_count, running, asm>>
    /\ UNCHANGED <<dbvars, last, sent, convars, stream, peer, answered, lines,
                   decisions, sock, link, ctx, mpc, sc_command, sc_response, conns, procvars>>

\* connect 62-64: self.send_command("auth-retry none"), up to the write;
\* connect ignores what send_command returns
ConnectSetup ==
    /\ bpc = "setup"
    /\ sc_command' = "auth-retry none"
    /\ \E ok \in sendall(sock, link) :
           /\ sent' = send_command(sent, sc_command', ok)
           /\ IF ok
              THEN /\ sc_response' = Pending
                   /\ bpc' = "setup_await"
                   /\ UNCHANGED <<running, asm>>
              ELSE /\ sc_response' = IOErrorResult
                   /\ ConnectReturn(TRUE)
    /\ UNCHANGED <<dbvars, last, convars, stream, peer, wire, answered, lines,
                   decisions, sock, link, retry_count, ctx, mpc, data, conns, procvars>>

\* send_command 92-96 of the setup command, then connect 64: return True
ConnectSetupRecv ==
    /\ bpc = "setup_await"
    /\ \E o \in recv(sock, link, wire) :
           /\ sc_response' = returned(o)
           /\ wire' = after_recv(wire, o)
    /\ ConnectReturn(TRUE)
    /\ UNCHANGED <<dbvars, last, sent, convars, stream, peer, answered, lines,
                   decisions, sock, link, retry_count, ctx, mpc, sc_command, data,
                   conns, procvars>>

\* connect 70-71: time.sleep(self.retry_interval)
ConnectSleep ==
    /\ bpc = "sleep"
    /\ bpc' = "connect"
    /\ UNCHANGED <<dbvars, last, sent, convars, stream, peer, wire, answered, lines,
                   asm, decisions, running, sock, link, retry_count, ctx, mpc,
                   sc_command, sc_response, data, conns, procvars>>

\* _run 154-158 and 211-214: a zero-byte read or a socket.error of the read
\* at 152 calls connect()
BridgeReconnect ==
    /\ bpc = "recv"
    /\ \E o \in recv(sock, link, wire) :
           /\ o.kind \in {"eof", "error"}
           /\ ctx' = o.kind
    /\ retry_count' = 0
    /\ bpc' = "connect"
    /\ UNCHANGED <<dbvars, last, sent, convars, stream, peer, wire, answered, lines,
                   asm, decisions, running, sock, link, mpc, sc_command, sc_response,
                   data, conns, procvars>>

\* the peer closes the connection
PeerClose ==
    /\ link = "up"
    /\ link' = "down"
    /\ peer' = <<>>
    /\ UNCHANGED <<dbvars, last, sent, convars, stream, wire, answered, lines, asm,
                   bpc, decisions, running, sock, retry_count, ctx, mpc, sc_command,
                   sc_response, data, conns, procvars>>

\* the connection is reset
PeerReset ==
    /\ link = "up"
    /\ link' = "reset"
    /\ peer' = <<>>
    /\ wire' = ""
    /\ UNCHANGED <<dbvars, last, sent, convars, stream, answered, lines, asm, bpc,
                   decisions, running, sock, retry_count, ctx, mpc, sc_command,
                   sc_response, data, conns, procvars>>

\* the interface as __init__ leaves it
InitLife ==
    /\ now = 0
    /\ codes = <<>>
    /\ tokens = <<>>
    /\ authtoken = {}
    /\ last = Idle
    /\ sent = <<>>
    /\ pc = [w \in Threads |-> "idle"]
    /\ loc = [w \in Threads |-> NoLocals]
    /\ stream = "" /\ peer = <<>> /\ wire = "" /\ answered = 0
    /\ lines = <<>> /\ asm = NoRequest /\ bpc = "idle" /\ decisions = <<>>
    /\ running = FALSE /\ sock = "none" /\ link = "none" /\ retry_count = 0
    /\ ctx = "start" /\ mpc = "idle" /\ sc_command = None /\ sc_response = None
    /\ data = None /\ conns = 0
    /\ InitProcess

NextLife ==
    \/ Start
    \/ Stop
    \/ StopClose
    \/ StopJoin
    \/ \E text \in CommandInputs : SendCommand(text)
    \/ SendCommandRecv
    \/ ConnectAttempt
    \/ ConnectGreet
    \/ ConnectSetup
    \/ ConnectSetupRecv
    \/ ConnectSleep
    \/ LoopCheck
    \/ BridgeRecv
    \/ BridgeReconnect
    \/ BridgeLine
    \/ BridgeRecvResponse
    \/ \E k \in 1..Len(peer) : PeerSend(k)
    \/ PeerRespond
    \/ PeerClose
    \/ PeerReset

SpecLife == InitLife /\ [][NextLife]_vars

(***************************************************************************)
(* start() after a stop() that returned while the worker was still alive:  *)
(* the join of stop() waits five seconds at most, and the worker may be    *)
(* in a read that blocks, in a connection attempt or in the sleep between  *)
(* two attempts.  The variables of the worker follow the new thread; of    *)
(* the earlier one only its being alive is kept.                           *)
(***************************************************************************)
MaxStale == 1

\* start() 102-110 while the thread of an earlier start() is alive
StartOver ==
    /\ mpc \in {"idle", "stopped"}
    /\ ~running
    /\ WorkerAlive
    /\ stale < MaxStale
    /\ stale' = stale + 1
    /\ running' = TRUE
    /\ bpc' = "connect"
    /\ ctx' = "start"
    /\ retry_count' = 0
    /\ lines' = <<>>
    /\ mpc' = "idle"
    /\ UNCHANGED <<dbvars, last, sent, convars, stream, peer, wire, answered, asm,
                   decisions, sock, link, sc_command, sc_response, data, conns,
                   management_interface, instances, callers>>

\* _run 149: an earlier worker tests self.running, finds it false and
\* leaves the loop
StaleExit ==
    /\ stale > 0
    /\ ~running
    /\ stale' = stale - 1
    /\ UNCHANGED <<dbvars, last, sent, convars, stream, peer, wire, answered, lines,
                   asm, bpc, decisions, running, sock, link, retry_count, ctx, mpc,
                   sc_command, sc_response, data, conns, management_interface,
                   instances, callers>>

NextWorkers ==
    \/ NextLife
    \/ StartOver
    \/ StaleExit

SpecWorkers == InitLife /\ [][NextWorkers]_vars

(***************************************************************************)
(* The module's singleton (324-351) under the threads of one process: the  *)
(* thread that AuthserverConfig.ready spawns on start_management_interface *)
(* (apps.py 19-21) and the thread of the management command (handle        *)
(* 28-69).  A thread can be preempted between any two statements.          *)
(***************************************************************************)
\* the actions of the management command that reach the singleton without
\* stopping it
CommandActions == {"start", "status"}

\* OpenVPNManagementInterface.__init__ 28-34, with the workers and the
\* control-socket connections the object has started so far
NewInterface == [running |-> FALSE, workers |-> 0, connections |-> 0]

\* a thread begins: start_management_interface 350, handle 43 and 65
Call(c, a) ==
    /\ callers[c].pc = "idle"
    /\ c = "ready" => a = "start"
    /\ callers' = [callers EXCEPT ![c] = [pc |-> "get", action |-> a, interface |-> NoInterface]]
    /\ UNCHANGED <<svcvars, stale, management_interface, instances>>

\* get_management_interface 337: if management_interface is None
GetCheck(c) ==
    /\ callers[c].pc = "get"
    /\ callers' = [callers EXCEPT ![c].pc =
                       IF management_interface = NoInterface THEN "create" ELSE "return"]
    /\ UNCHANGED <<svcvars, stale, management_interface, instances>>

\* get_management_interface 339-342: the object is constructed and bound
\* to the global
GetCreate(c) ==
    /\ callers[c].pc = "create"
    /\ instances' = Append(instances, NewInterface)
    /\ management_interface' = Len(instances) + 1
    /\ callers' = [callers EXCEPT ![c].pc = "return"]
    /\ UNCHANGED <<svcvars, stale>>

\* get_management_interface 344: return management_interface
GetReturn(c) ==
    /\ callers[c].pc = "return"
    /\ callers' = [callers EXCEPT ![c].interface = management_interface,
                                  ![c].pc = IF callers[c].action = "start"
                                            THEN "start" ELSE "status"]
    /\ UNCHANGED <<svcvars, stale, management_interface, instances>>

\* start 102-104: if self.running: return
StartCheck(c) ==
    /\ callers[c].pc = "start"
    /\ callers' = [callers EXCEPT ![c].pc =
                       IF instances[callers[c].interface].running
                       THEN "done" ELSE "spawn"]
    /\ UNCHANGED <<svcvars, stale, management_interface, instances>>

\* start 106-110: self.running = True, and the thread on _run is started
StartSpawn(c) ==
    LET i == callers[c].interface IN
    /\ callers[c].pc = "spawn"
    /\ instances' = [instances EXCEPT ![i].running = TRUE,
                                      ![i].workers = instances[i].workers + 1]
    /\ callers' = [callers EXCEPT ![c].pc = "done"]
    /\ UNCHANGED <<svcvars, stale, management_interface>>

\* handle 65-69: the status action reads interface.running
Status(c) ==
    /\ callers[c].pc = "status"
    /\ callers' = [callers EXCEPT ![c].pc = "done"]
    /\ UNCHANGED <<svcvars, stale, management_interface, instances>>

\* connect 51-55 in a worker of the object i: a worker that has not
\* connected yet opens its connection to the control socket
WorkerConnect(i) ==
    /\ i \in 1..Len(instances)
    /\ instances[i].connections < instances[i].workers
    /\ instances' = [instances EXCEPT ![i].connections = instances[i].connections + 1]
    /\ UNCHANGED <<svcvars, stale, management_interface, callers>>

\* a step of one of the threads in the module's functions
CallerStep(c) ==
    \/ GetCheck(c)
    \/ GetCreate(c)
    \/ GetReturn(c)
    \/ StartCheck(c)
    \/ StartSpawn(c)
    \/ Status(c)

NextSingleton ==
    \/ \E c \in Callers, a \in CommandActions : Call(c, a)
    \/ \E c \in Callers : CallerStep(c)
    \/ \E i \in 1..Len(instances) : WorkerConnect(i)

SpecSingleton == InitLife /\ [][NextSingleton]_vars

(***************************************************************************)
(* One call of connect(), from the moment start() has spawned the worker   *)
(* until the call returns to _run, with the peer as its environment.       *)
(***************************************************************************)
InitConnect ==
    /\ now = 0
    /\ codes = <<>>
    /\ tokens = <<>>
    /\ authtoken = {}
    /\ last = Idle
    /\ sent = <<>>
    /\ pc = [w \in Threads |-> "idle"]
    /\ loc = [w \in Threads |-> NoLocals]
    /\ stream = "" /\ peer = <<>> /\ wire = "" /\ answered = 0
    /\ lines = <<>> /\ asm = NoRequest /\ bpc = "connect" /\ decisions = <<>>
    /\ running = TRUE /\ sock = "none" /\ link = "none" /\ retry_count = 0
    /\ ctx = "start" /\ mpc = "idle" /\ sc_command = None /\ sc_response = None
    /\ data = None /\ conns = 0
    /\ InitProcess

\* the steps of connect()
ConnectStep ==
    \/ ConnectAttempt
    \/ ConnectGreet
    \/ ConnectSetup
    \/ ConnectSetupRecv
    \/ ConnectSleep

NextConnect ==
    \/ ConnectStep
    \/ \E k \in 1..Len(peer) : PeerSend(k)
    \/ PeerRespond
    \/ PeerClose
    \/ PeerReset

\* the worker thread is scheduled: connect() takes its next step whenever
\* that step stays possible.  Nothing obliges the peer to send or to close,
\* and the sockets have no timeout.
SpecConnect == InitConnect /\ [][NextConnect]_vars /\ WF_vars(ConnectStep)

(***************************************************************************)
(* The line loop of _run (161-209) on the lines of one read: every         *)
(* sequence of at most MaxLines lines of LineInputs is the result of       *)
(* data.splitlines() of a read, and the loop takes them one by one.        *)
(***************************************************************************)
LineInputs ==
    { ">CLIENT:CONNECT,5,9", ">CLIENT:CONNECT,7,1",
      ">CLIENT:ENV,username=alice", ">CLIENT:ENV,username=bob",
      ">CLIENT:ENV,password=pw", ">CLIENT:ENV,password=zz",
      ">CLIENT:ENV,END", ">CLIENT:CONNECT,5" }

RECURSIVE LineSeqs(_)
LineSeqs(n) ==
    IF n = 0 THEN {<<>>}
    ELSE LET S == LineSeqs(n - 1) IN
         S \cup {Append(ls, l) : ls \in {x \in S : Len(x) = n - 1}, l \in LineInputs}

RECURSIVE JoinLines(_)
JoinLines(ls) ==
    IF ls = <<>> THEN "" ELSE Head(ls) \o "\n" \o JoinLines(Tail(ls))

\* the bridge is connected and a read has just returned the bytes of stream
InitAssembler ==
    /\ now = 0
    /\ codes = <<>>
    /\ tokens = <<>>
    /\ authtoken = {}
    /\ last = Idle
    /\ sent = <<>>
    /\ pc = [w \in Threads |-> "idle"]
    /\ loc = [w \in Threads |-> NoLocals]
    /\ lines \in LineSeqs(MaxLines)
    /\ stream = JoinLines(lines) /\ peer = <<>> /\ wire = "" /\ answered = 0
    /\ asm = NoRequest /\ bpc = "loop" /\ decisions = <<>>
    /\ running = TRUE /\ sock = "open" /\ link = "up" /\ retry_count = 0
    /\ ctx = "start" /\ mpc = "idle" /\ sc_command = "auth-retry none"
    /\ sc_response = Response /\ data = Greeting /\ conns = 1
    /\ InitProcess

NextAssembler ==
    \/ BridgeLine
    \/ BridgeRecvResponse
    \/ PeerRespond
    \/ LoopCheck

SpecAssembler == InitAssembler /\ [][NextAssembler]_vars

(***************************************************************************)
(* The REST service next to the bridge.  AuthserverConfig.ready hands      *)
(* start_management_interface to a thread of its own and returns, and      *)
(* start() only spawns the daemon worker; the views never call into the    *)
(* management interface.  The two share the database only.                 *)
(***************************************************************************)
\* mutant: requests are served only while the bridge holds a connection
serving_when_connected(b) == b \in {"loop", "recv", "await"}

\* whether the request workers serve a call while the bridge worker is at b
serving(b) == TRUE

\* a step-one call handled by a request worker
RestStep1(username, password) ==
    /\ serving(bpc)
    /\ LoginStep1(username, password)

\* a step-two call handled by a request worker
RestStep2(temporary_token, verification_code) ==
    /\ serving(bpc)
    /\ LoginStep2(temporary_token, verification_code)

NextService ==
    \/ Start
    \/ ConnectAttempt
    \/ ConnectGreet
    \/ ConnectSetup
    \/ ConnectSetupRecv
    \/ ConnectSleep
    \/ LoopCheck
    \/ BridgeRecv
    \/ BridgeReconnect
    \/ BridgeLine
    \/ BridgeRecvResponse
    \/ \E k \in 1..Len(peer) : PeerSend(k)
    \/ PeerRespond
    \/ PeerClose
    \/ \E u \in {"alice", "bob", "mallory"}, p \in {"pw", "zz"} : RestStep1(u, p)
    \/ \E k \in {TokenStr(1), "bogus"}, c \in {Rep6(d) : d \in CodeDigits} : RestStep2(k, c)
    \/ Respond

SpecService == InitLife /\ [][NextService]_vars

(***************************************************************************)
(* Properties.                                                             *)
(***************************************************************************)

\* C1: under any interleaving of concurrent verification attempts (inline
\* and REST) that present the value of one VerificationCode, at most one of
\* the attempts is verified by that code: the row authorizes one login.
C1_CodeAuthorizesAtMostOnce ==
    \A i \in 1..Len(codes) : codes[i].grants <= 1

\* C2: under any interleaving of concurrent step-two calls that present one
\* TemporarySessionToken, at most one call issues a permanent access token.
C2_TokenIssuesAtMostOnce ==
    \A k \in 1..Len(tokens) : tokens[k].grants <= 1

\* the call answered in the next state was made in this state
Called(op) == last = Idle /\ last'.op = op

\* rows of a table that carry a given token value
TokenRows(token) == {k \in 1..Len(tokens) : tokens[k].token = token}

\* the code presented by the call recorded in l, and the account it is
\* checked for ("" when there is none)
PresentedCode(l) ==
    IF l.op = "step2" THEN l.code
    ELSE IF l.op = "inline" /\ HasSemi(l.password) THEN code_part(l.password)
    ELSE ""

PresentedAccount(l) ==
    IF l.op = "step2"
    THEN IF TokenRows(l.token) = {} THEN "" ELSE tokens[Max(TokenRows(l.token))].user
    ELSE IF l.op = "inline" /\ l.username \in UserNames THEN l.username
    ELSE ""

Refused(l) ==
    \/ l.op = "step2" /\ l.status \in {"400", "401"}
    \/ l.op = "inline" /\ l.status = "deny"

\* C3: in a sequential run, once a step-two call with a temporary token has
\* succeeded, every later step-two call with the same token is refused and
\* changes nothing, whatever code it supplies.
C3_UsedTokenRefused ==
    [][ \A k \in 1..Len(tokens) :
            (Called("step2") /\ tokens[k].token = last'.token /\ tokens[k].grants >= 1)
                => /\ last'.status \in {"400", "401"}
                   /\ UNCHANGED <<tokens, codes, authtoken>> ]_vars

\* C3 witness: a step-two call was refused although its token row exists,
\* has already authorized a login, is unexpired, and the supplied code would
\* verify for the owner.
C3_Witness ==
    /\ last.op = "step2" /\ last.status = "401"
    /\ \E k \in TokenRows(last.token) :
           /\ tokens[k].grants = 1 /\ tokens[k].is_used
           /\ tokens[k].expires_at > now
           /\ rest_second_factor(tokens[k].user, last.code, codes, now).verified

\* C5: a code or a token is valid exactly when it is unused and
\* now < expires_at: no call marks an expired row used, a step-two call with
\* an expired token is refused, and a call (REST or inline) whose presented
\* code value exists for the account only in expired rows is refused.
C5_ExpiredRefused ==
    [][ (Called("step2") \/ Called("inline")) =>
          /\ \A i \in 1..Len(codes) : codes[i].expires_at <= now => codes'[i] = codes[i]
          /\ \A k \in 1..Len(tokens) :
                 tokens[k].expires_at <= now => tokens'[k].is_used = tokens[k].is_used
          /\ (last'.op = "step2" /\ \E k \in TokenRows(last'.token) : tokens[k].expires_at <= now)
                 => Refused(last') /\ authtoken' = authtoken
          /\ LET u == PresentedAccount(last')
                 rows == {i \in 1..Len(codes) :
                             codes[i].user = u /\ codes[i].code = PresentedCode(last')}
             IN  (u # "" /\ rows # {} /\ \A i \in rows : codes[i].expires_at <= now)
                    => Refused(last') /\ authtoken' = authtoken
          /\ \A i \in 1..Len(codes) :
                 code_is_valid(codes[i], now) <=> (~codes[i].is_used /\ now < codes[i].expires_at)
          /\ \A k \in 1..Len(tokens) :
                 token_is_valid(tokens[k], now) <=> (~tokens[k].is_used /\ now < tokens[k].expires_at)
      ]_vars

\* C5 witness: a step-two call with a still valid token was refused for a
\* code whose value matches an unused row of the owner that has expired.
C5_Witness ==
    /\ last.op = "step2" /\ last.status = "401"
    /\ \E k \in TokenRows(last.token) :
           /\ ~tokens[k].is_used /\ tokens[k].expires_at > now
           /\ \E i \in 1..Len(codes) :
                  /\ codes[i].user = tokens[k].user /\ codes[i].code = last.code
                  /\ ~codes[i].is_used /\ codes[i].expires_at <= now

\* C6: for an account whose method is SMS or TOTP, the inline decision
\* denies a password field without ';', and denies when the part before the
\* first ';' is not the account's password, whatever follows the ';'.
C6_SecondFactorRequired ==
    (/\ last.op = "inline"
     /\ last.username \in UserNames
     /\ users[last.username].two_fa_method \in {"SMS", "GOOGLE_AUTH"}
     /\ \/ ~HasSemi(last.password)
        \/ SubSeq(last.password, 1, FirstSemi(last.password) - 1)
               # users[last.username].password)
        => last.status = "deny"

\* C6 witness: an inline request of an SMS account was denied for its wrong
\* password although the code after the ';' is the valid latest code.
C6_Witness ==
    /\ last.op = "inline" /\ last.status = "deny"
    /\ last.username \in UserNames
    /\ users[last.username].two_fa_method = "SMS"
    /\ HasSemi(last.password)
    /\ password_part(last.password) # users[last.username].password
    /\ inline_second_factor(last.username, code_part(last.password), codes, now).verified

\* the primary credential of an inline password field: the part before the
\* first ';', or the whole field when there is none
PrimaryOf(field) ==
    IF \E i \in 1..Len(field) : SubSeq(field, i, i) = ";"
    THEN SubSeq(field, 1, Min({i \in 1..Len(field) : SubSeq(field, i, i) = ";"}) - 1)
    ELSE field

\* C7: for an account whose method is NONE, the inline decision allows and
\* step one issues a permanent token whenever the primary credentials are
\* correct; text after the first ';' is ignored and no stored code or
\* temporary token is touched.
C7_NoSecondFactorAccount ==
    [][ /\ (/\ Called("inline")
            /\ last'.username \in UserNames
            /\ users[last'.username].two_fa_method = "NONE"
            /\ PrimaryOf(last'.password) = users[last'.username].password)
               => last'.status = "allow" /\ UNCHANGED <<codes, tokens>>
        /\ (/\ Called("step1")
            /\ last'.username \in UserNames
            /\ users[last'.username].two_fa_method = "NONE"
            /\ last'.password = users[last'.username].password)
               => /\ last'.status = "200" /\ last'.body = "access_token"
                  /\ last'.username \in authtoken'
                  /\ UNCHANGED <<codes, tokens>> ]_vars

\* C7 witness: an inline request of a NONE account with text after the ';'
\* was allowed while an unused, unexpired code is stored.
C7_Witness ==
    /\ last.op = "inline" /\ last.status = "allow"
    /\ last.username \in UserNames
    /\ users[last.username].two_fa_method = "NONE"
    /\ HasSemi(last.password) /\ code_part(last.password) # ""
    /\ \E i \in 1..Len(codes) :
           /\ ~codes[i].is_used /\ codes[i].expires_at > now
           /\ codes[i].code = code_part(last.password)

\* a code that is correct for an account at this moment
CorrectCode(u, c) ==
    \/ /\ users[u].two_fa_method = "SMS"
       /\ \E i \in 1..Len(codes) :
              /\ codes[i].user = u /\ codes[i].code = c
              /\ ~codes[i].is_used /\ now < codes[i].expires_at
    \/ /\ users[u].two_fa_method = "GOOGLE_AUTH"
       /\ users[u].two_fa_secret # None
       /\ c = Otp(users[u].two_fa_secret, timecode(now))

\* C8: a step-two call with a valid temporary token and a wrong code issues
\* no access token and leaves the token unused; a step-two call with a valid
\* token (also one refused before) and a correct code succeeds and consumes
\* the token.
C8_RetryWithinExpiry ==
    [][ \A k \in 1..Len(tokens) :
          (/\ Called("step2")
           /\ tokens[k].token = last'.token
           /\ ~tokens[k].is_used /\ now < tokens[k].expires_at
           /\ last'.code # "")
          => IF CorrectCode(tokens[k].user, last'.code)
             THEN /\ last'.status = "200"
                  /\ tokens'[k].is_used
                  /\ tokens[k].user \in authtoken'
             ELSE /\ last'.status # "200"
                  /\ ~tokens'[k].is_used
                  /\ authtoken' = authtoken
                  /\ codes' = codes ]_vars

\* C8 witness: a step-two call succeeded with a token that an earlier call
\* had presented with a wrong code.
C8_Witness ==
    /\ last.op = "step2" /\ last.status = "200"
    /\ \E k \in TokenRows(last.token) :
           tokens[k].denials = 1 /\ tokens[k].is_used /\ tokens[k].grants = 1

\* C9: the inline path and REST step two apply the same second-factor
\* predicate: for every account with a second factor and every supplied
\* code they reach the same verdict and mark the same code used.
C9_SamePredicate ==
    \A u \in UserNames, c \in CodeInputs(now) :
        users[u].two_fa_method # "NONE"
            => inline_second_factor(u, c, codes, now) = rest_second_factor(u, c, codes, now)

\* the service loop takes the next line, and it is the terminal marker of
\* the request being collected
ReachesEnd ==
    /\ bpc = "loop" /\ lines # <<>> /\ lines' = Tail(lines)
    /\ asm.collecting_env
    /\ StartsWith(Head(lines), ">CLIENT:ENV,END")

\* C4: each (connectionId, keyId) request that reaches >CLIENT:ENV,END gets
\* exactly one reply command (allow or deny) written for its ids, and no
\* other step writes a reply.
C4_ExactlyOneReply ==
    [][ IF ReachesEnd
        THEN \E c \in {allow_command(asm.current_cid, asm.current_kid),
                       deny_command(asm.current_cid, asm.current_kid)} :
                 sent' = Append(sent, c \o "\n")
        ELSE sent' = sent ]_vars

Range(f) == {f[x] : x \in DOMAIN f}

\* the decisions the loop takes when the lines ls are processed in turn
RECURSIVE one_read(_, _, _, _)
one_read(ls, a, cs, ds) ==
    IF ls = <<>> THEN ds
    ELSE LET r == line_step(a, cs, now, Head(ls)) IN
         IF r.call = "none" THEN one_read(Tail(ls), r.asm, r.codes, ds)
         ELSE IF r.verdict = "raise" THEN Append(ds, Decision(a, r.verdict))
         ELSE one_read(Tail(ls), r.asm, r.codes, Append(ds, Decision(a, r.verdict)))

Finished ==
    /\ peer = <<>> /\ wire = ""
    /\ \/ bpc = "loop" /\ lines = <<>>
       \/ bpc = "dead"

\* C10: however the peer's bytes are split into reads, only whole
\* newline-terminated lines are matched, and the decisions taken are those
\* of the stream arriving in one read.
C10_WholeLinesOnly ==
    /\ \A n \in 1..Len(lines) :
           lines[n] \in Range(splitlines(stream)) \cup Range(splitlines(Response))
    /\ Finished =>
           decisions = one_read(splitlines(stream), NoRequest,
                                generate_code(<<>>, "bob", "222222", 0), <<>>)

\* the service loop takes the next line of the current read
TakesLine == bpc = "loop" /\ lines # <<>> /\ lines' = Tail(lines)

\* C11: when a CONNECT line for (c2,k2) is taken while a request for
\* (c1,k1) is still collecting fields, no decision is taken and no reply is
\* written for the discarded request, and the assembler is collecting for
\* (c2,k2) with no username and no password; a reply is only ever written
\* for the ids of the request being collected when it is written.
C11_FreshConnectWins ==
    [][ /\ (TakesLine /\ asm.collecting_env /\ auth_request_match(Head(lines)).matched)
            => /\ asm' = [current_cid |-> auth_request_match(Head(lines)).cid,
                          current_kid |-> auth_request_match(Head(lines)).kid,
                          username |-> None, password |-> None,
                          collecting_env |-> TRUE]
               /\ sent' = sent
               /\ decisions' = decisions
        /\ sent' # sent
            => \E c \in {allow_command(asm.current_cid, asm.current_kid),
                          deny_command(asm.current_cid, asm.current_kid)} :
                   sent' = Append(sent, c \o "\n") ]_vars

\* C11 witness: the request for (5,9) had its username when CONNECT,7,1
\* arrived; the request for (7,1) was decided with its own fields only, and
\* the only reply written is for (7,1).
C11_Witness ==
    /\ StartsWith(stream, ">CLIENT:CONNECT,5,9\n>CLIENT:ENV,username=alice\n>CLIENT:CONNECT,7,1\n")
    /\ Len(decisions) = 1
    /\ decisions[1].cid = "7" /\ decisions[1].kid = "1"
    /\ decisions[1].username = None /\ decisions[1].password = "pw"
    /\ sent = <<deny_command("7", "1") \o "\n">>

\* the line taken is the terminal marker of a request that has its ids, its
\* username and its password
CompleteAtEnd ==
    /\ ReachesEnd
    /\ asm.username # None /\ asm.password # None
    /\ asm.current_cid # None /\ asm.current_kid # None

\* C12: CONNECT with ids (c,k), a username line u, a password line p (with
\* any ;code suffix, unsplit), then END produce exactly one decision call
\* with (u, p, c, k), exactly one reply (allow or deny) for (c,k), and leave
\* the assembler idle.
C12_OneDecisionOneReply ==
    [][ CompleteAtEnd
            => /\ \E v \in {"allow", "deny"} :
                      /\ decisions' = Append(decisions, Decision(asm, v))
                      /\ sent' = Append(sent,
                                    reply_command(v, asm.current_cid, asm.current_kid) \o "\n")
               /\ asm' = NoRequest ]_vars

\* a string of exactly six decimal digits
SixDigits(c) == Len(c) = 6 /\ \A n \in 1..6 : IsDigit(CharAt(c, n))

\* an account that logs in with an SMS code and has a phone number
SmsAccount(u) ==
    /\ u \in UserNames
    /\ users[u].two_fa_method = "SMS"
    /\ users[u].phone_number # None

\* C13: end to end for an SMS account.  Step one with correct credentials
\* answers 200 with a temporary token and creates a fresh, unused 6-digit
\* code; step two with an unexpired, unused token of the account and an
\* unexpired, unused code of the account answers 200 with the access token
\* and consumes the token; step two with a token that has already issued an
\* access token answers 401.
C13_SmsEndToEnd ==
    [][ /\ (Called("step1") /\ SmsAccount(last'.username)
                /\ last'.password = users[last'.username].password)
            => /\ last'.status = "200" /\ last'.body = "temporary_token"
               /\ tokens' = generate_token(tokens, last'.username, now)
               /\ token_is_valid(tokens'[Len(tokens')], now)
               /\ Len(codes') = Len(codes) + 1
               /\ SubSeq(codes', 1, Len(codes)) = codes
               /\ LET c == codes'[Len(codes')] IN
                      /\ c.user = last'.username
                      /\ SixDigits(c.code)
                      /\ ~c.is_used
                      /\ c.expires_at = now + CodeExpiryMinutes
        /\ \A k \in 1..Len(tokens) :
               (Called("step2") /\ tokens[k].token = last'.token /\ last'.code # ""
                    /\ SmsAccount(tokens[k].user))
               => /\ (/\ ~tokens[k].is_used /\ tokens[k].expires_at > now
                       /\ \E i \in 1..Len(codes) :
                              /\ codes[i].user = tokens[k].user
                              /\ codes[i].code = last'.code
                              /\ ~codes[i].is_used /\ codes[i].expires_at > now)
                      => /\ last'.status = "200" /\ last'.body = "access_token"
                         /\ tokens[k].user \in authtoken'
                         /\ tokens'[k].is_used
                  /\ tokens[k].grants >= 1
                      => /\ last'.status = "401"
                         /\ UNCHANGED <<tokens, codes, authtoken>> ]_vars

\* C13 witness: bob's token has issued one access token, one of bob's codes
\* has verified one login, and a repeated step-two call with the same token
\* and the same code value has just been answered 401.
C13_Witness ==
    /\ last.op = "step2" /\ last.status = "401"
    /\ \E k \in TokenRows(last.token) :
           /\ tokens[k].user = "bob" /\ tokens[k].grants = 1
           /\ "bob" \in authtoken
           /\ \E i \in 1..Len(codes) :
                  /\ codes[i].user = "bob" /\ codes[i].code = last.code
                  /\ codes[i].grants = 1 /\ SixDigits(codes[i].code)
                  /\ codes[i].expires_at > now

\* the read of a send_command call returns in this step
SendCommandReturns ==
    sc_response = Pending /\ sc_response' # Pending /\ sc_command' = sc_command

\* the bytes a step takes off the connection
Consumed == SubSeq(wire, 1, Len(wire) - Len(wire'))

\* C14: every line the peer sends after the setup is fed to the assembler,
\* whatever the interleaving of the peer's sends with the bridge's command
\* writes: the read that send_command makes for the response of a command
\* takes no line of the peer's stream off the connection.
C14_NoLineSwallowed ==
    [][ SendCommandReturns
            => \A n \in 1..Len(splitlines(Consumed)) :
                   splitlines(Consumed)[n] \in Range(splitlines(Response)) ]_vars

\* the worker is inside a connect() that the service loop called
Reconnecting ==
    /\ ctx \in {"eof", "error"}
    /\ bpc \in {"connect", "greet", "setup", "setup_await", "sleep"}

\* C15: in the service loop a zero-byte read or a socket error of the read
\* calls connect() afresh; when that connect() returns True the loop is
\* back at its head with its locals kept and reads again while the
\* interface is running; the loop terminates from a reconnect exactly when
\* the last of connect_retries attempts has failed.
C15_ReconnectOrTerminate ==
    [][ /\ (bpc = "recv" /\ bpc' # "recv" /\ wire' = wire)
            => bpc' = "connect" /\ retry_count' = 0 /\ ctx' \in {"eof", "error"}
        /\ (Reconnecting /\ bpc \in {"setup", "setup_await"} /\ bpc' # bpc
                /\ bpc' # "setup_await")
            => bpc' = "loop" /\ lines' = <<>> /\ asm' = asm
        /\ (bpc = "loop" /\ lines = <<>> /\ running /\ bpc' # bpc)
            => bpc' = "recv"
        /\ (Reconnecting /\ retry_count' = connect_retries /\ retry_count' # retry_count)
            => bpc' = "done"
        /\ (Reconnecting /\ bpc' = "done")
            => retry_count' = connect_retries /\ retry_count = connect_retries - 1 ]_vars

\* C15 witness: the loop reads again on a second connection, which a
\* reconnect established after a zero-byte read and one failed attempt.
C15_Witness ==
    /\ bpc = "recv" /\ running
    /\ ctx = "eof" /\ conns = 2 /\ retry_count = 1
    /\ sock = "open" /\ link = "up"

\* the worker's connect() returns True in this step
ConnectSucceeds == bpc \in {"setup", "setup_await"} /\ bpc' = "loop"

\* C17: connect() returns True only when, on that attempt, a greeting was
\* read, the setup command auth-retry none was written and its reply was
\* received.
C17_SuccessMeansSetupDone ==
    [][ ConnectSucceeds
            => /\ data \notin {None, ""}
               /\ sc_command' = "auth-retry none"
               /\ sent' # <<>> /\ sent'[Len(sent')] = "auth-retry none\n"
               /\ sc_response' \notin {NotConnectedResult, IOErrorResult, "", Pending} ]_vars

\* C18: a write of send_command appends exactly the text of the call and
\* one newline, as one write; and when its read returns bytes, the call
\* returns exactly the bytes read, at most BufSize of them.
C18_WritesLineReturnsRead ==
    [][ /\ sent' # sent
            => /\ sent' = Append(sent, sc_command' \o "\n")
               /\ sc_response' = Pending
        /\ (SendCommandReturns /\ wire' # wire)
            => /\ sc_response' = Consumed
               /\ Consumed = SubSeq(wire, 1, Min({Len(wire), BufSize})) ]_vars

\* C18 witness: the setup command was written as one line on the current
\* connection and the call returned the peer's answer.
C18_Witness ==
    /\ sock = "open" /\ link = "up"
    /\ sc_command = "auth-retry none"
    /\ sent # <<>> /\ sent[Len(sent)] = "auth-retry none\n"
    /\ answered = Len(sent)
    /\ sc_response = Response

\* the client is in the Disconnected state of the spec: no socket, a socket
\* that never connected or was closed, or a connection the peer has closed
\* or reset
Disconnected == sock # "open" \/ link # "up"

\* C19: a send_command call made while Disconnected writes nothing and
\* returns the NotConnected result; a call whose read ends without bytes
\* (peer closed, socket error) returns the IOError result, which differs
\* from the NotConnected result and is no response value.
C19_DistinctFailures ==
    [][ /\ Disconnected => sent' = sent
        /\ (SendCommandReturns /\ wire' = wire)
            => sc_response' = IOErrorResult /\ sc_response' # ""
        /\ NotConnectedResult # IOErrorResult ]_vars

\* C20: once stop() has returned and the worker has terminated, the
\* interface holds no open socket.
C20_StoppedHoldsNoSocket ==
    (mpc = "stopped" /\ ~running /\ bpc \in {"done", "dead"}) => sock # "open"

\* the worker is inside connect()
InConnect == bpc \in {"connect", "greet", "setup", "setup_await", "sleep"}

\* C16: connect() always terminates: every call returns to _run, after at
\* most connect_retries attempts.
C16_ConnectTerminates ==
    /\ [](InConnect => retry_count < connect_retries)
    /\ [](InConnect => <>(~InConnect))

\* the status step one answers with for a username and a password, by the
\* accounts alone
Step1Status(u, p) ==
    IF u = "" \/ p = "" THEN "400"
    ELSE IF u \notin UserNames \/ users[u].password # p THEN "401"
    ELSE IF users[u].two_fa_method = "SMS" /\ users[u].phone_number = None THEN "500"
    ELSE "200"

\* the tables have room for the rows a step-one call creates
Room == Len(tokens) < MaxTokens /\ Len(codes) < MaxCodes

GenericDeny(c, k) == "client-deny " \o c \o " " \o k \o " \"Authentication failed\"\n"

\* the decision taken in this step
Decided == Len(decisions') = Len(decisions) + 1

\* C22: the deny command written for a request depends only on its ids:
\* whatever the cause of the denial (wrong primary credentials, missing
\* second factor, invalid code, incomplete request), the line written is
\* the one generic deny line for (cid, kid).
C22_DenyDependsOnIdsOnly ==
    [][ (Decided /\ decisions'[Len(decisions')].verdict = "deny" /\ sent' # sent)
            => sent' = Append(sent, GenericDeny(asm.current_cid, asm.current_kid)) ]_vars

\* C22 witness: two requests with the same ids were denied for different
\* causes, a missing second factor and a wrong code, and the two lines
\* written are equal.
C22_Witness ==
    /\ Len(decisions) = 2 /\ Len(sent) = 2
    /\ decisions[1].verdict = "deny" /\ decisions[1].password = "pw"
    /\ decisions[2].verdict = "deny" /\ decisions[2].password = "pw;111111"
    /\ decisions[1].cid = decisions[2].cid /\ decisions[1].kid = decisions[2].kid
    /\ sent[1] = sent[2]

\* the error texts step two sends with status 401
UnauthorizedBodies ==
    {"Temporary token has expired. Please login again.",
     "Invalid or expired temporary token",
     "Invalid verification code"}

\* some step-two call made in this state is answered 401 with the text b
Step2Refuses(b) ==
    \E k \in TokenInputs \ {""}, c \in CodeInputs(now) :
        ENABLED (LoginStep2(k, c) /\ last'.status = "401" /\ last'.body = b)

\* C23: step two answers every token or code failure with one and the same
\* unauthorized result: no two calls made in one state are refused with
\* different responses.
C23_OneUnauthorizedResult ==
    \A b1, b2 \in UnauthorizedBodies :
        (Step2Refuses(b1) /\ Step2Refuses(b2)) => b1 = b2

\* the reply an inline call invoked: "allow" or "deny"; "raise" when the
\* call ended without invoking either
Invoked(l) == l.status

\* C24: every call of the inline decision routine invokes exactly one of
\* allow and deny, once: allow when primary verification succeeds for a
\* NONE-method account given a password without delimiter, deny when
\* primary verification of the username and the password part fails.
C24_ExactlyOneOfAllowDeny ==
    [][ Called("inline")
            => /\ Invoked(last') \in {"allow", "deny"}
               /\ Len(sent') <= Len(sent) + 1
               /\ sent' # sent =>
                      sent' = Append(sent, reply_command(Invoked(last'), "5", "9") \o "\n")
               /\ authenticate(last'.username, PrimaryOf(last'.password)) = None
                      => Invoked(last') = "deny"
               /\ ( /\ authenticate(last'.username, last'.password) # None
                    /\ ~HasSemi(last'.password)
                    /\ users[last'.username].two_fa_method = "NONE" )
                      => Invoked(last') = "allow" ]_vars

\* the step creates exactly one row, for account u, at the end of the table
OneNewRow(tbl, tbl2, u) ==
    /\ Len(tbl2) = Len(tbl) + 1
    /\ SubSeq(tbl2, 1, Len(tbl)) = tbl
    /\ tbl2[Len(tbl2)].user = u
    /\ ~tbl2[Len(tbl2)].is_used

\* C25: step one with correct primary credentials issues a permanent access
\* token and creates no temporary token and no code for a NONE account;
\* creates exactly one temporary token and exactly one new code of the
\* account for an SMS account; creates exactly one temporary token and no
\* code for a TOTP account; with wrong credentials it creates nothing and
\* answers unauthorized.
C25_StepOneCreates ==
    [][ (Called("step1") /\ last'.username # "" /\ last'.password # "")
            => LET u == last'.username
                   ok == authenticate(u, last'.password) # None
                   m == users[u].two_fa_method
               IN  /\ ~ok => /\ last'.status = "401"
                             /\ UNCHANGED <<codes, tokens, authtoken>>
                   /\ (ok /\ m = "NONE")
                         => /\ last'.status = "200" /\ last'.body = "access_token"
                            /\ u \in authtoken'
                            /\ UNCHANGED <<codes, tokens>>
                   /\ (ok /\ m = "SMS")
                         => /\ last'.status = "200" /\ last'.body = "temporary_token"
                            /\ OneNewRow(tokens, tokens', u)
                            /\ OneNewRow(codes, codes', u)
                            /\ UNCHANGED authtoken
                   /\ (ok /\ m = "GOOGLE_AUTH")
                         => /\ last'.status = "200" /\ last'.body = "temporary_token"
                            /\ OneNewRow(tokens, tokens', u)
                            /\ UNCHANGED <<codes, authtoken>> ]_vars

\* the lines the peer has sent, and how many of them the loop has taken
Fed == splitlines(stream)

Taken == Len(Fed) - Len(lines)

\* the ids a CONNECT line carries; no ids for any other line
IdsOf(line) ==
    {id \in {<<"5", "9">>, <<"7", "1">>} :
        line = ">CLIENT:CONNECT," \o id[1] \o "," \o id[2]}

\* the value a field line carries for name; None for any other line
FieldOf(line, name) ==
    LET p == ">CLIENT:ENV," \o name \o "=" IN
    IF StartsWith(line, p) /\ Len(line) > Len(p)
    THEN SubSeq(line, Len(p) + 1, Len(line)) ELSE None

\* the value of the last line for name among lines a+1 .. b-1 of F; None
\* if there is none
LastField(F, name, a, b) ==
    LET S == {i \in (a + 1)..(b - 1) : FieldOf(F[i], name) # None} IN
    IF S = {} THEN None ELSE FieldOf(F[Max(S)], name)

\* C26: the username and the password of a decision for ids (c,k) are those
\* of the last username line and the last password line taken after the
\* most recent CONNECT line, which carries (c,k), and before the END line
\* that triggers the decision; no field taken before that CONNECT is used.
C26_FieldsOfOwnRequest ==
    [][ Decided
            => LET F == Fed
                   n == Len(F) - Len(lines) + 1
                   C == {i \in 1..(n - 1) : IdsOf(F[i]) # {}}
                   d == decisions'[Len(decisions')]
               IN  /\ C # {}
                   /\ <<d.cid, d.kid>> \in IdsOf(F[Max(C)])
                   /\ d.username = LastField(F, "username", Max(C), n)
                   /\ d.password = LastField(F, "password", Max(C), n) ]_vars

\* C26 witness: the request for (5,9) was abandoned with bob's name and a
\* wrong password collected; the request for (7,1) was decided, and allowed,
\* with alice's name and her password.
C26_Witness ==
    /\ decisions = << [cid |-> "7", kid |-> "1", username |-> "alice",
                       password |-> "pw", verdict |-> "allow"] >>
    /\ sent = << "client-auth-nt 7 1\n" >>
    /\ Fed = << ">CLIENT:CONNECT,5,9", ">CLIENT:ENV,username=bob",
                ">CLIENT:CONNECT,7,1", ">CLIENT:ENV,username=alice",
                ">CLIENT:ENV,password=pw", ">CLIENT:ENV,END" >>

\* the loop takes an END line while it is collecting a request
TakesEnd == TakesLine /\ asm.collecting_env /\ Head(lines) = ">CLIENT:ENV,END"

\* C27: when END arrives while a request is collected and the username or
\* the password is missing, the request is denied for the current ids, by
\* the generic deny line and with no effect of a decision on the codes;
\* after END, complete or not, the assembler is idle with ids, username and
\* password cleared.
C27_IncompleteDenied ==
    [][ TakesEnd
            => /\ asm' = NoRequest
               /\ Decided
               /\ (asm.username = None \/ asm.password = None)
                     => /\ decisions'[Len(decisions')] =
                               [cid |-> asm.current_cid, kid |-> asm.current_kid,
                                username |-> asm.username, password |-> asm.password,
                                verdict |-> "deny"]
                        /\ codes' = codes
                        /\ sent' \in {sent, Append(sent, GenericDeny(asm.current_cid,
                                                                    asm.current_kid))} ]_vars

\* C27 witness: END arrived for (5,9) with a username and no password; the
\* deny line for (5,9) was written and the assembler is idle and cleared.
C27_Witness ==
    /\ decisions = << [cid |-> "5", kid |-> "9", username |-> "alice",
                       password |-> None, verdict |-> "deny"] >>
    /\ sent = << GenericDeny("5", "9") >>
    /\ asm = NoRequest
    /\ lines = <<>>

\* the line has none of the four recognized shapes
Unrecognized(line) ==
    /\ IdsOf(line) = {}
    /\ FieldOf(line, "username") = None
    /\ FieldOf(line, "password") = None
    /\ line # ">CLIENT:ENV,END"

\* C28: a line of none of the recognized shapes, and a username, password
\* or END line taken while no request is being collected, leaves the
\* assembler state unchanged, writes no reply, takes no decision, and the
\* service loop goes on.
C28_IgnoredLines ==
    [][ (TakesLine /\ \/ Unrecognized(Head(lines))
                      \/ (~asm.collecting_env /\ IdsOf(Head(lines)) = {}))
            => /\ asm' = asm
               /\ sent' = sent
               /\ decisions' = decisions
               /\ codes' = codes
               /\ bpc' = "loop" /\ running' = running ]_vars

\* C28 witness: a username, a password and an END line and a malformed
\* CONNECT line were taken while idle; nothing was collected, decided or
\* written, and the loop is at its next read.
C28_Witness ==
    /\ decisions = <<>> /\ sent = <<>>
    /\ asm = NoRequest
    /\ lines = <<>> /\ bpc = "recv" /\ running
    /\ Fed = << ">CLIENT:ENV,username=alice", ">CLIENT:ENV,password=pw",
                ">CLIENT:ENV,END", ">CLIENT:CONNECT,5" >>

\* the rows of the account's codes that are not used
UnusedRows(u) == {i \in 1..Len(codes) : codes[i].user = u /\ ~codes[i].is_used}

\* an inline call for an SMS account with the right password and a code part
InlineSms ==
    /\ Called("inline")
    /\ last'.username \in UserNames
    /\ users[last'.username].two_fa_method = "SMS"
    /\ HasSemi(last'.password)
    /\ PrimaryOf(last'.password) = users[last'.username].password

\* C29: the inline decision for an SMS account examines only the account's
\* most recently created unused code: the request is allowed iff that code
\* exists, has not expired and equals the code supplied; on a match exactly
\* that row is marked used, and otherwise no row changes, even when an
\* older unused code has the value supplied.
C29_InlineSmsNewestCodeOnly ==
    [][ InlineSms
            => LET u == last'.username
                   c == SubSeq(last'.password, Len(PrimaryOf(last'.password)) + 2,
                               Len(last'.password))
                   S == UnusedRows(u)
                   match == /\ S # {}
                            /\ codes[Max(S)].expires_at > now
                            /\ codes[Max(S)].code = c
               IN  /\ last'.status = IF match THEN "allow" ELSE "deny"
                   /\ Len(codes') = Len(codes)
                   /\ \A i \in 1..Len(codes) :
                          /\ codes'[i].is_used = (codes[i].is_used \/ (match /\ i = Max(S)))
                          /\ codes'[i].code = codes[i].code
                          /\ codes'[i].user = codes[i].user
                          /\ codes'[i].expires_at = codes[i].expires_at ]_vars

\* C29 witness: bob holds two unused, unexpired codes; the inline request
\* supplied the value of the older one and was denied, and both codes are
\* still unused.
C29_Witness ==
    /\ last.op = "inline" /\ last.username = "bob" /\ last.status = "deny"
    /\ Len(codes) = 2
    /\ \A i \in 1..2 : codes[i].user = "bob" /\ ~codes[i].is_used /\ codes[i].expires_at > now
    /\ codes[1].code # codes[2].code
    /\ last.password = "pw;" \o codes[1].code

\* C30: allow and deny are best-effort.  A decision makes one write
\* attempt: either the reply line is written once and its response is
\* awaited, or the write fails, nothing is written then or later for that
\* decision, send_command returns its error result, and the worker stays
\* in the loop with the following lines still to be taken.
C30_BestEffortReply ==
    [][ /\ Decided
            => LET d == decisions'[Len(decisions')] IN
               \/ /\ sent' = Append(sent, reply_command(d.verdict, d.cid, d.kid) \o "\n")
                  /\ sc_response' = Pending
                  /\ bpc' = "await"
               \/ /\ sent' = sent
                  /\ sc_response' = IOErrorResult
                  /\ bpc' = "loop" /\ running' = running
                  /\ lines' = Tail(lines)
        /\ sent' # sent => Decided ]_vars

\* C30 witness: the deny for (5,9) could not be written; the loop took the
\* following lines, and the deny for (7,1) is the only command written.
C30_Witness ==
    /\ Len(decisions) = 2
    /\ decisions[1].cid = "5" /\ decisions[2].cid = "7"
    /\ sent = << GenericDeny("7", "1") >>
    /\ running /\ bpc \in {"await", "loop", "recv"}

\* the time steps whose code a check with one step of tolerance accepts
ToleratedSteps(t) == {k \in (timecode(t) - 1)..(timecode(t) + 1) : k >= 0}

\* an inline call for a TOTP account with a secret, with the right password
\* and a code part
InlineTotp ==
    /\ Called("inline")
    /\ last'.username \in UserNames
    /\ users[last'.username].two_fa_method = "GOOGLE_AUTH"
    /\ users[last'.username].two_fa_secret # None
    /\ HasSemi(last'.password)
    /\ PrimaryOf(last'.password) = users[last'.username].password

\* C31: the TOTP check accepts the code of the current 30-second step and,
\* with one step of tolerance, the code of an adjacent step, and rejects
\* the code of any step further away.
C31_TotpOneStepTolerance ==
    [][ InlineTotp
            => LET secret == users[last'.username].two_fa_secret
                   c == SubSeq(last'.password, Len(PrimaryOf(last'.password)) + 2,
                               Len(last'.password))
               IN  (last'.status = "allow")
                       <=> (\E k \in ToleratedSteps(now) : c = Otp(secret, k)) ]_vars

\* the account has a second factor
TwoFactor(u) == u \in UserNames /\ users[u].two_fa_method \in {"SMS", "GOOGLE_AUTH"}

\* C32: every permanent access token the REST flow issues for an account
\* with a second factor, and every allow the bridge emits for one, follows
\* in the same login attempt a successful primary verification and a
\* successful second-factor verification of that account: a temporary token
\* is only created by a step-one call with the account's password, an
\* access token is only issued by step one for a NONE account or by step
\* two for the account of a live temporary token with a correct code, and
\* an inline allow needs the password and a correct code in one field.
C32_AccessNeedsBothFactors ==
    [][ /\ Len(tokens') > Len(tokens)
            => /\ Called("step1")
               /\ tokens' = generate_token(tokens, last'.username, now)
               /\ users[last'.username].password = last'.password
        /\ authtoken' # authtoken
            => Called("step1") \/ Called("step2")
        /\ (Called("step1") /\ authtoken' # authtoken)
            => /\ authtoken' = authtoken \cup {last'.username}
               /\ ~TwoFactor(last'.username)
               /\ users[last'.username].password = last'.password
        /\ (Called("step2") /\ (last'.status = "200" \/ authtoken' # authtoken))
            => \E k \in 1..Len(tokens) :
                   /\ tokens[k].token = last'.token
                   /\ ~tokens[k].is_used /\ tokens[k].expires_at > now
                   /\ CorrectCode(tokens[k].user, last'.code)
                   /\ authtoken' = authtoken \cup {tokens[k].user}
        /\ (Called("inline") /\ last'.status = "allow" /\ TwoFactor(last'.username))
            => /\ HasSemi(last'.password)
               /\ PrimaryOf(last'.password) = users[last'.username].password
               /\ CorrectCode(last'.username,
                              SubSeq(last'.password, Len(PrimaryOf(last'.password)) + 2,
                                     Len(last'.password)))
        /\ (sent' # sent /\ sent'[Len(sent')] = allow_command("5", "9") \o "\n")
            => Called("inline") /\ last'.status = "allow" ]_vars

\* C32 witness: bob holds an access token issued by step two, and the
\* bridge has just allowed carol and written the allow.
C32_Witness ==
    /\ "bob" \in authtoken
    /\ \E k \in 1..Len(tokens) : tokens[k].user = "bob" /\ tokens[k].grants = 1
    /\ last.op = "inline" /\ last.username = "carol" /\ last.status = "allow"
    /\ sent = << allow_command("5", "9") \o "\n" >>

\* the call answered in this step was denied
DeniedCall ==
    \/ Called("inline") /\ last'.status = "deny"
    \/ Called("step2") /\ last'.status = "401"

\* C38: a denied attempt, inline or at REST step two, leaves the used flag
\* of every stored code and of every temporary token as it was, and adds
\* and removes no row: a wrong password and a wrong code consume nothing.
C38_DenialConsumesNothing ==
    [][ DeniedCall
            => /\ Len(codes') = Len(codes)
               /\ \A i \in 1..Len(codes) :
                      /\ codes'[i].is_used = codes[i].is_used
                      /\ codes'[i].code = codes[i].code
                      /\ codes'[i].expires_at = codes[i].expires_at
               /\ Len(tokens') = Len(tokens)
               /\ \A k \in 1..Len(tokens) :
                      /\ tokens'[k].is_used = tokens[k].is_used
                      /\ tokens'[k].expires_at = tokens[k].expires_at
               /\ authtoken' = authtoken ]_vars

\* C38 witness: bob holds a live temporary token and a live code; an inline
\* request with his password and another code value has just been denied,
\* and the token and the code are still unused.
C38_Witness ==
    /\ last.op = "inline" /\ last.username = "bob" /\ last.status = "deny"
    /\ Len(tokens) = 1 /\ tokens[1].user = "bob" /\ token_is_valid(tokens[1], now)
    /\ Len(codes) = 1 /\ codes[1].user = "bob" /\ code_is_valid(codes[1], now)
    /\ HasSemi(last.password)
    /\ PrimaryOf(last.password) = "pw"
    /\ last.password # "pw;" \o codes[1].code

\* the account a verification is for: the owner of the token presented at
\* step two, the user named inline
VerifiedAccount ==
    IF Called("step2")
    THEN IF TokenRows(last'.token) = {} THEN None
         ELSE tokens[Max(TokenRows(last'.token))].user
    ELSE last'.username

\* the code value presented
PresentedValue ==
    IF Called("step2") THEN last'.code
    ELSE IF HasSemi(last'.password)
         THEN SubSeq(last'.password, Len(PrimaryOf(last'.password)) + 2, Len(last'.password))
         ELSE None

\* C39: a second-factor verification for an account reads and marks only
\* codes owned by that account: every code a call marks used is owned by
\* the account the call verifies, and a call for an SMS account succeeds
\* only on a live code owned by that account, whatever codes of the
\* presented value other accounts hold.
C39_CodesOfOwnAccountOnly ==
    [][ (Called("step2") \/ Called("inline"))
            => /\ \A i \in 1..Len(codes) :
                      codes'[i].is_used # codes[i].is_used
                          => codes[i].user = VerifiedAccount
               /\ ( /\ last'.status \in {"200", "allow"}
                    /\ VerifiedAccount \in UserNames
                    /\ users[VerifiedAccount].two_fa_method = "SMS" )
                      => \E i \in 1..Len(codes) :
                             /\ codes[i].user = VerifiedAccount
                             /\ codes[i].code = PresentedValue
                             /\ code_is_valid(codes[i], now) ]_vars

\* C39 witness: the temporary token is erin's, bob holds a live code, and a
\* step-two call with erin's token and the value of bob's code has just
\* been refused, bob's code still unused.
C39_Witness ==
    /\ last.op = "step2" /\ last.status = "401"
    /\ Len(tokens) = 1 /\ tokens[1].user = "erin" /\ tokens[1].token = last.token
    /\ token_is_valid(tokens[1], now)
    /\ Len(codes) = 1 /\ codes[1].user = "bob" /\ code_is_valid(codes[1], now)
    /\ last.code = codes[1].code

\* C40: no received line and no decision outcome terminates the worker or
\* leaves a request that reached END without a reply: while the interface
\* is running and connected, the worker stays in the service loop, and
\* every decision is an allow or a deny.
C40_LinesNeverEndTheLoop ==
    [][ /\ (running /\ bpc \in {"loop", "recv", "await"})
            => bpc' \in {"loop", "recv", "await", "connect"}
        /\ Decided
            => decisions'[Len(decisions')].verdict \in {"allow", "deny"} ]_vars

\* the worker thread has terminated
WorkerTerminated == bpc \in {"done", "dead"}

\* C35: whenever the worker has terminated, because the initial connect
\* failed or because a reconnect of the service loop ran out of retries,
\* the running flag is false, so that a later start() starts a new worker.
C35_TerminatedMeansNotRunning ==
    WorkerTerminated => ~running

\* a CONNECT line is among the lines the peer has sent on the connection
\* that is open now
ConnectLineFed ==
    \E n \in 1..Len(splitlines(stream)) :
        auth_request_match(splitlines(stream)[n]).matched

\* C36: after a reconnect the assembler is Idle, and no reply is written on
\* the new connection for a request whose CONNECT line was received on the
\* previous connection: every reply follows a CONNECT line of the
\* connection it is written on.
C36_ReconnectAbandonsRequest ==
    [][ /\ (ConnectSucceeds /\ ctx \in {"eof", "error"}) => ~asm'.collecting_env
        /\ (Decided /\ sent' # sent) => ConnectLineFed ]_vars

\* the number of threads that are executing _run
AliveWorkers == (IF WorkerAlive THEN 1 ELSE 0) + stale

\* C33: for one interface and any sequence of start() and stop() calls at
\* most one worker thread executes the service loop at any time: a start()
\* issued after stop() never leaves a worker from before the stop() running
\* alongside the new one.
C33_AtMostOneWorker ==
    AliveWorkers <= 1

RECURSIVE Total(_, _)
\* the sum of a counter over the objects created
Total(objs, counter) ==
    IF objs = <<>> THEN 0
    ELSE (IF counter = "workers" THEN Head(objs).workers ELSE Head(objs).connections)
         + Total(Tail(objs), counter)

\* C34: under any interleaving of the concurrent start_management_interface
\* and get_management_interface calls of one process, one
\* OpenVPNManagementInterface object is created, and at most one worker
\* and one control-socket connection exist.
C34_OneInstanceOneWorker ==
    /\ Len(instances) <= 1
    /\ Total(instances, "workers") <= 1
    /\ Total(instances, "connections") <= 1

\* connect 54 binds self.socket to a new socket in this step
BindsNewSocket == bpc = "connect" /\ bpc' # "connect"

====
